---- MODULE Spec2Model ----
(***************************************************************************)
(* Community bot: the reminder scheduler (cogs/reminders.py), the XP        *)
(* engine (cogs/xp.py, db/actions.py) and the personal channels            *)
(* (cogs/channel.py) as state machines.                                    *)
(*                                                                         *)
(* Persisted tables are variables; every handler is an action (or, where   *)
(* it suspends on I/O between two writes, one action per writing step).    *)
(* The chat platform and the database are the environment: which ids       *)
(* resolve, how a send ends and whether a storage call raises are drawn    *)
(* nondeterministically.                                                   *)
(***************************************************************************)
EXTENDS Integers, Sequences, FiniteSets, TLC

(* ------------------------------ bounds -------------------------------- *)

\* Rows the reminders table may hold.
MaxReminders == 2
\* Last value of the wall clock in the reminder scheduler's runs.
MaxTime == 2

\* Ledger rows (messages handled) in the XP engine's runs.
MaxMessages == 2
\* Clock advances in the XP engine's runs.
MaxClockSteps == 2
\* Longest message content whose award is computed on its own.
MaxLength == 150
\* Text channels the bot creates in the runs of the personal channels.
MaxCreated == 2
\* Channel commands and joins handled in the runs of the personal channels.
MaxCalls == 3
\* Times the bot is started in a run.
MaxBoots == 2
\* Longest string, in characters, a parser is given.
MaxText == 5

(* ------------------------- program constants -------------------------- *)

\* can_award_xp: timedelta(minutes=1), in seconds.
CooldownSeconds == 60
\* timedelta(days=1), in seconds.
SecondsPerDay == 86400
\* award_xp: timedelta(days=3).
WindowDays == 3
WindowSeconds == WindowDays * SecondsPerDay
\* _validate_channel_name: the longest channel name.
MaxNameLength == 100
\* on_message: characters that earn no length bonus.
FreeChars == 50
\* on_message: 0.1 XP per extra character, in units of 0.0001 XP.
BonusPerChar == 1000
\* random.uniform(6, 10): the ends of the draw, in units of 0.0001 XP.
BaseMin == 60000
BaseMax == 100000

(* ----------------------------- universes ------------------------------ *)

Guilds == {1, 2}
Users == {1, 2}
\* Channel ids; the tens digit is the guild the channel belongs to.
Channels == {11}
GuildOf(c) == c \div 10
\* Users who invoke /remindme.
Authors == {1}
\* Intervals, in clock units, a remindme invocation asks for.
Deltas == {1, 2}

\* message.guild of a direct message.
NoGuild == 0
\* Content lengths of the messages received.
Lengths == {50, 60}
\* Values random.uniform(6, 10) returns, in units of 0.0001 XP: the low
\* end, one that rounds up to 10.000, and the high end itself, which
\* 6 + 4 * random() reaches by floating-point rounding.
BaseDraws == {BaseMin, 99996, BaseMax}
\* (guild, author) of the messages received.
Authorships == {<<1, 1>>, <<1, 2>>, <<2, 1>>}
\* Seconds the clock advances by between two steps of the XP engine.
ClockJumps == {30, 259200}
\* user_xp holds no row for the pair.
NoRow == -1
Pairs == Guilds \X Users

\* Text channels messages are posted in; the tens digit is the guild.
TextChannels == {11, 12, 21}
\* get_user_channel: None, no personal channel is registered.
NoChannel == 0
\* last_journal_message: NULL, the user never posted in the channel.
NoStamp == -1
\* The personal channels table of a database in which an administrator
\* has assigned channel 11 to user 1 and channel 12 to user 2 of guild 1.
RegisteredChannels ==
    {[guild_id |-> 1, user_id |-> 1, channel_id |-> 11, last_journal_message |-> NoStamp],
     [guild_id |-> 1, user_id |-> 2, channel_id |-> 12, last_journal_message |-> NoStamp]}
\* Window lengths, in days, the activity and statistics queries are asked for.
QueryDays == {1, WindowDays}

\* How channel.send ends: normally, discord.Forbidden, another
\* discord.HTTPException, or an exception of any other class.
SendResults == {"ok", "Forbidden", "HTTPException", "Exception"}

VARIABLES
    now,          \* wall clock
    reminders,    \* reminders table: sequence of rows, id = index
    botReady,     \* the platform readiness signal (wait_until_ready returns)
    loopState,    \* check_reminders loop: "before_loop", "sleeping", "running"
    dueList,      \* rows of the running cycle not yet handed to _send_reminder
    liveGuilds,   \* guild ids bot.get_guild resolves
    liveChannels, \* channel ids guild.get_channel resolves
    dbFaults,     \* whether storage calls may raise in this run
    \* history of the scheduler (read by no action)
    everTicked,   \* some poll cycle has fetched
    outcome,      \* id -> how the last _send_reminder call for it ended
    retried,      \* some reminder was attempted again after a transient failure
    delivered,    \* id -> number of successful channel.send calls (saturating)
    earlyTries,   \* ids handed to _send_reminder before their fire-at time
    staleTries,   \* ids handed to _send_reminder while already Completed
    cycleDue,     \* ids Pending and due when the last cycle fetched
    cycleTried,   \* ids handed to _send_reminder in the last cycle
    \* XP engine
    message_logs, \* the ledger: sequence of rows, xp_awarded in 0.001 XP
    user_xp,      \* the snapshot: (guild, user) -> xp in 0.001 XP, or NoRow
    inflight,     \* the on_message invocations suspended in award_xp
    clockSteps,   \* clock advances so far
    serial,       \* whether handlers are run one at a time in this run
    user_private_channels, \* personal channels table: a set of rows
    \* history of the XP engine (read by no action)
    xpTrace,      \* per ledger row: what its on_message invocation saw
    received,     \* non-bot guild messages on_message has been called with
    lastStats,    \* what the /xp stats invocation just made has read
    lastJournal,  \* the message whose journal step ran last
    \* a function evaluated on its own
    fnCall,       \* the arguments
    fnResult,     \* the value returned, NoResult before the call
    \* personal channels
    channelCalls, \* invocations of the channel handlers suspended at an await
    created,      \* text channels the bot has created so far
    calls,        \* channel commands and joins handled so far
    \* commands and settings
    lastCommand,  \* the command that has just been rejected or answered
    guild_settings, \* guild settings table: a set of rows
    settingsCalls, \* set_welcome_message / set_active_role_id calls suspended
    \* the assistant
    apiKey,       \* ANTHROPIC_API_KEY in the environment, NoKey when unset
    _client,      \* the module global _client of claude.py
    \* the activity role
    memberRoles,  \* (guild, member) pairs holding the guild's activity role
    sweep,        \* the _update_guild_active_roles call in progress
    lastSweep,    \* the call that has just completed
    manageRoles,  \* the bot has the Manage Roles permission in its guilds
    headStart,    \* ledger rows the run starts with
    \* start-up
    db_schema,    \* tables and later-added columns of the database file
    migrations,   \* the migrations table: names in the order recorded
    boot,         \* the position of main() and the locals of run_migrations
    boots,        \* times main() has been started
    runs,         \* times each migration function has been called
    changes,      \* times each migration function has changed the schema
    crashed,       \* a statement of run_migrations has raised
    unconfigured, \* some /claude was answered "not configured"
    escaped       \* the handlers an exception has propagated out of

journalVars == <<user_private_channels, lastJournal>>
fnVars == <<fnCall, fnResult>>
channelVars == <<channelCalls, created, calls>>
settingsVars == <<guild_settings, settingsCalls>>
claudeVars == <<apiKey, _client, unconfigured>>
roleVars == <<memberRoles, sweep, lastSweep>>
migVars == <<db_schema, migrations, boot, boots, runs, changes, crashed>>
startVars == <<headStart, manageRoles, migVars>>
restVars == <<settingsVars, claudeVars, roleVars, startVars>>
moreVars == <<escaped, restVars>>
extVars == <<lastCommand, moreVars>>

xpVars == <<message_logs, user_xp, inflight, clockSteps, xpTrace, serial,
            received, lastStats, journalVars, fnVars, channelVars, extVars>>

vars == <<now, reminders, botReady, loopState, dueList, liveGuilds, liveChannels,
          dbFaults, everTicked, outcome, retried, delivered, earlyTries,
          staleTries, cycleDue, cycleTried, xpVars>>

history == <<everTicked, outcome, retried, delivered, earlyTries, staleTries,
             cycleDue, cycleTried>>

Ids == 1..(MaxReminders + 1)

\* The history counters count 0, 1, 2-or-more.
Bump(n) == IF n < 2 THEN n + 1 ELSE n

Range(s) == {s[i] : i \in 1..Len(s)}

\* All orderings of a finite set, as sequences.
RECURSIVE Orderings(_)
Orderings(S) ==
    IF S = {} THEN {<<>>}
    ELSE UNION {{<<x>> \o q : q \in Orderings(S \ {x})} : x \in S}

(* ------------------------- persistence layer -------------------------- *)

\* Outcomes of one storage call: TRUE returns, FALSE raises.
DbResults == IF dbFaults THEN {TRUE, FALSE} ELSE {TRUE}

create_reminder(rems, guild_id, user_id, channel_id, remind_at) ==
    Append(rems, [guild_id |-> guild_id, user_id |-> user_id,
                  channel_id |-> channel_id, remind_at |-> remind_at,
                  completed |-> FALSE])

\* The ids of the Pending rows whose fire-at is not after t.
get_due_reminders(rems, t) ==
    {i \in 1..Len(rems) : ~rems[i].completed /\ rems[i].remind_at <= t}

mark_reminder_completed(rems, id) ==
    [rems EXCEPT ![id].completed = TRUE]

(* ------------------------- Reminders._send_reminder ------------------- *)

\* _send_reminder as written, with the three places a slip would change
\* left open: whether a successful send is followed by the mark, what a
\* target that does not resolve does to the row ("mark", "skip",
\* "delete"), and which send failures mark the row Completed.
send_reminder_variant(rems, reminder_id, guildFound, channelFound, sendResult, markOk, markAfterSend, onMissing, markOn) ==
    LET marked == IF markOk THEN mark_reminder_completed(rems, reminder_id) ELSE rems
        missing == IF onMissing = "mark" THEN marked
                   ELSE IF onMissing = "skip" THEN rems
                   ELSE SubSeq(rems, 1, reminder_id - 1)
                          \o SubSeq(rems, reminder_id + 1, Len(rems))
    IN  IF ~guildFound THEN
            [reminders |-> missing, sent |-> FALSE, how |-> "no_guild", raised |-> FALSE]
        ELSE IF ~channelFound THEN
            [reminders |-> missing, sent |-> FALSE, how |-> "no_channel", raised |-> FALSE]
        ELSE IF sendResult = "ok" THEN
            [reminders |-> IF markAfterSend THEN marked ELSE rems,
             sent |-> TRUE, how |-> "ok", raised |-> FALSE]
        ELSE
            [reminders |-> IF sendResult \in markOn THEN marked ELSE rems,
             sent |-> FALSE, how |-> sendResult,
             raised |-> sendResult = "Forbidden" /\ ~markOk]

\* Slip: the mark after a successful send is forgotten.
send_reminder_no_mark_after_send(rems, reminder_id, guildFound, channelFound, sendResult, markOk) ==
    send_reminder_variant(rems, reminder_id, guildFound, channelFound, sendResult, markOk,
                          FALSE, "mark", {"Forbidden"})

\* Slip: a transient HTTPException is treated like Forbidden.
send_reminder_mark_on_http(rems, reminder_id, guildFound, channelFound, sendResult, markOk) ==
    send_reminder_variant(rems, reminder_id, guildFound, channelFound, sendResult, markOk,
                          TRUE, "mark", {"Forbidden", "HTTPException"})

\* Slip: a target that does not resolve only logs and returns.
send_reminder_skip_missing(rems, reminder_id, guildFound, channelFound, sendResult, markOk) ==
    send_reminder_variant(rems, reminder_id, guildFound, channelFound, sendResult, markOk,
                          TRUE, "skip", {"Forbidden"})

\* Slip: Forbidden is only logged.
send_reminder_forbidden_retries(rems, reminder_id, guildFound, channelFound, sendResult, markOk) ==
    send_reminder_variant(rems, reminder_id, guildFound, channelFound, sendResult, markOk,
                          TRUE, "mark", {})

\* Slip: a stale row is self-healed by deleting it, as personal channels are.
send_reminder_delete_missing(rems, reminder_id, guildFound, channelFound, sendResult, markOk) ==
    send_reminder_variant(rems, reminder_id, guildFound, channelFound, sendResult, markOk,
                          TRUE, "delete", {"Forbidden"})

\* One call of _send_reminder for row reminder_id.  guildFound and
\* channelFound are what get_guild / get_channel return, sendResult how
\* channel.send ends, markOk whether mark_reminder_completed returns.
\* Result: the table afterwards, whether a message reached the channel,
\* how the call ended, and whether an exception left the coroutine.
_send_reminder(rems, reminder_id, guildFound, channelFound, sendResult, markOk) ==
    LET marked == IF markOk THEN mark_reminder_completed(rems, reminder_id) ELSE rems
    IN  IF ~guildFound THEN
            \* lines 97-100: inside try, a raising mark lands in except Exception
            [reminders |-> marked, sent |-> FALSE, how |-> "no_guild", raised |-> FALSE]
        ELSE IF ~channelFound THEN
            [reminders |-> marked, sent |-> FALSE, how |-> "no_channel", raised |-> FALSE]
        ELSE IF sendResult = "ok" THEN
            \* lines 116-117
            [reminders |-> marked, sent |-> TRUE, how |-> "ok", raised |-> FALSE]
        ELSE IF sendResult = "Forbidden" THEN
            \* lines 119-121: the mark runs inside the except clause, so an
            \* exception it raises is caught by no clause of this try
            [reminders |-> marked, sent |-> FALSE, how |-> "Forbidden", raised |-> ~markOk]
        ELSE IF sendResult = "HTTPException" THEN
            \* lines 122-124
            [reminders |-> rems, sent |-> FALSE, how |-> "HTTPException", raised |-> FALSE]
        ELSE
            \* lines 125-126
            [reminders |-> rems, sent |-> FALSE, how |-> "Exception", raised |-> FALSE]

(* ------------------------------ actions ------------------------------- *)

UnchangedScheduler == UNCHANGED <<botReady, loopState, dueList>>
UnchangedPlatform == UNCHANGED <<liveGuilds, liveChannels>>

\* The platform connection becomes ready.
on_ready ==
    /\ ~botReady
    /\ botReady' = TRUE
    /\ UNCHANGED <<now, reminders, loopState, dueList, dbFaults, history, xpVars>>
    /\ UnchangedPlatform

\* Slip: the before_loop hook does not wait for readiness.
before_check_reminders_no_wait ==
    /\ loopState = "before_loop"
    /\ loopState' = "sleeping"
    /\ UNCHANGED <<now, reminders, botReady, dueList, dbFaults, history, xpVars>>
    /\ UnchangedPlatform

\* before_loop hook: returns once wait_until_ready has returned.
before_check_reminders ==
    /\ loopState = "before_loop"
    /\ botReady
    /\ loopState' = "sleeping"
    /\ UNCHANGED <<now, reminders, botReady, dueList, dbFaults, history, xpVars>>
    /\ UnchangedPlatform

\* Slip: the cycle iterates over every Pending row, due or not.
check_reminders_fetch_pending(rems, t, fetchOk) ==
    IF fetchOk THEN {i \in 1..Len(rems) : ~rems[i].completed} ELSE {}

\* Lines 74-75 and 78-79: the rows the cycle iterates over.  A raising
\* fetch is caught at line 78 and the cycle handles nothing.
check_reminders_fetch(rems, t, fetchOk) ==
    IF fetchOk THEN get_due_reminders(rems, t) ELSE {}

\* The timer fires: check_reminders fetches the due rows (line 75), in the
\* order the query happens to return them.
check_reminders ==
    /\ loopState = "sleeping"
    /\ \E fetchOk \in DbResults :
         LET due == check_reminders_fetch(reminders, now, fetchOk)
         IN  /\ \E q \in Orderings(due) : dueList' = q
             /\ loopState' = IF due = {} THEN "sleeping" ELSE "running"
             /\ cycleDue' = IF fetchOk
                             THEN {i \in 1..Len(reminders) :
                                     ~reminders[i].completed /\ reminders[i].remind_at <= now}
                             ELSE {}
             /\ cycleTried' = {}
             /\ everTicked' = TRUE
    /\ UNCHANGED <<now, reminders, botReady, dbFaults, outcome, retried, delivered,
                   earlyTries, staleTries, xpVars>>
    /\ UnchangedPlatform

\* One iteration of the for loop of check_reminders (lines 76-77): the
\* next row is handed to _send_reminder.  An exception that leaves
\* _send_reminder leaves the loop too and is caught at line 78.  With
\* stopAfterFirst the loop ends after its first iteration.
check_reminders_iteration(stopAfterFirst) ==
    /\ loopState = "running"
    /\ dueList # <<>>
    /\ LET id == Head(dueList)
           row == reminders[id]
           guildFound == row.guild_id \in liveGuilds
           channelFound == row.channel_id \in liveChannels
                             /\ GuildOf(row.channel_id) = row.guild_id
       IN  \E sendResult \in SendResults, markOk \in DbResults :
             LET r == _send_reminder(reminders, id, guildFound, channelFound,
                                     sendResult, markOk)
                 rest == IF r.raised \/ stopAfterFirst THEN <<>> ELSE Tail(dueList)
             IN  /\ reminders' = r.reminders
                 /\ dueList' = rest
                 /\ loopState' = IF rest = <<>> THEN "sleeping" ELSE "running"
                 /\ outcome' = [outcome EXCEPT ![id] = r.how]
                 /\ retried' = (retried \/ outcome[id] \in {"HTTPException", "Exception"})
                 /\ delivered' = [delivered EXCEPT ![id] = IF r.sent THEN Bump(@) ELSE @]
                 /\ earlyTries' = IF now < row.remind_at THEN earlyTries \cup {id} ELSE earlyTries
                 /\ staleTries' = IF row.completed THEN staleTries \cup {id} ELSE staleTries
                 /\ cycleTried' = cycleTried \cup {id}
    /\ UNCHANGED <<now, botReady, dbFaults, everTicked, cycleDue, xpVars>>
    /\ UnchangedPlatform

\* Slip: the loop returns after the first reminder of the cycle.
check_reminders_send_first_only == check_reminders_iteration(TRUE)

check_reminders_send == check_reminders_iteration(FALSE)

\* /remindme past validation: stores one Pending row (lines 181-191).
remindme ==
    /\ Len(reminders) < MaxReminders
    /\ \E guild \in liveGuilds, author \in Authors, channel \in liveChannels,
          delta \in Deltas :
         /\ GuildOf(channel) = guild
         /\ reminders' = create_reminder(reminders, guild, author, channel, now + delta)
    /\ UNCHANGED <<now, dbFaults, history, xpVars>>
    /\ UnchangedScheduler
    /\ UnchangedPlatform

AdvanceClock ==
    /\ now < MaxTime
    /\ now' = now + 1
    /\ UNCHANGED <<reminders, dbFaults, history, xpVars>>
    /\ UnchangedScheduler
    /\ UnchangedPlatform

\* The bot leaves a guild, or a guild is deleted: the guild and its
\* channels leave the cache.
guild_remove ==
    /\ \E g \in liveGuilds :
         /\ liveGuilds' = liveGuilds \ {g}
         /\ liveChannels' = {c \in liveChannels : GuildOf(c) # g}
    /\ UNCHANGED <<now, reminders, dbFaults, history, xpVars>>
    /\ UnchangedScheduler

channel_delete ==
    /\ \E c \in liveChannels : liveChannels' = liveChannels \ {c}
    /\ UNCHANGED <<now, reminders, liveGuilds, dbFaults, history, xpVars>>
    /\ UnchangedScheduler

(* ------------------------------ XP engine ----------------------------- *)

remVars == <<reminders, botReady, loopState, dueList, liveGuilds, liveChannels,
             dbFaults, history>>

\* round(x, 3) of a non-negative x given in units of 0.0001 XP; the result
\* is in units of 0.001 XP.  Python rounds a value halfway between two
\* thousandths to the even one.
Round3(x) ==
    LET q == x \div 10
        r == x % 10
    IN  IF r < 5 THEN q
        ELSE IF r > 5 THEN q + 1
        ELSE IF q % 2 = 0 THEN q ELSE q + 1

\* Slip: the cooldown is shared by all members of the guild.
can_award_xp_any_user(logs, guild_id, user_id, t) ==
    ~\E k \in 1..Len(logs) :
        /\ logs[k].guild_id = guild_id
        /\ logs[k].timestamp >= t - CooldownSeconds

\* Slip: a row exactly one minute old no longer blocks the base award.
can_award_xp_exclusive(logs, guild_id, user_id, t) ==
    ~\E k \in 1..Len(logs) :
        /\ logs[k].guild_id = guild_id
        /\ logs[k].user_id = user_id
        /\ logs[k].timestamp > t - CooldownSeconds

\* Slip: the cooldown follows the user across guilds.
can_award_xp_any_guild(logs, guild_id, user_id, t) ==
    ~\E k \in 1..Len(logs) :
        /\ logs[k].user_id = user_id
        /\ logs[k].timestamp >= t - CooldownSeconds

\* Slip: only a row that holds a base award blocks the next one.
can_award_xp_base_rows(logs, guild_id, user_id, t) ==
    ~\E k \in 1..Len(logs) :
        /\ logs[k].guild_id = guild_id
        /\ logs[k].user_id = user_id
        /\ logs[k].xp_awarded * 10 >= BaseMin
        /\ logs[k].timestamp >= t - CooldownSeconds

\* can_award_xp at clock t (lines 91-100): no ledger row of the pair is
\* timestamped at or after one minute ago.
can_award_xp(logs, guild_id, user_id, t) ==
    ~\E k \in 1..Len(logs) :
        /\ logs[k].guild_id = guild_id
        /\ logs[k].user_id = user_id
        /\ logs[k].timestamp >= t - CooldownSeconds

\* Slip: the length bonus is added only to a base award.
xp_to_award_bonus_with_base(eligible, base_xp, message_length) ==
    IF eligible
    THEN base_xp + (IF message_length > FreeChars
                    THEN (message_length - FreeChars) * BonusPerChar ELSE 0)
    ELSE 0

\* on_message lines 30-42: the award before rounding, in units of 0.0001
\* XP, from the cooldown decision, the random draw and the content length.
xp_to_award(eligible, base_xp, message_length) ==
    (IF eligible THEN base_xp ELSE 0)
      + (IF message_length > FreeChars
         THEN (message_length - FreeChars) * BonusPerChar ELSE 0)

RECURSIVE SumXp(_, _, _, _, _)
\* Sum of xp_awarded over rows 1..n of the pair timestamped at or after cutoff.
SumXp(logs, n, guild_id, user_id, cutoff) ==
    IF n = 0 THEN 0
    ELSE SumXp(logs, n - 1, guild_id, user_id, cutoff)
           + (IF /\ logs[n].guild_id = guild_id
                 /\ logs[n].user_id = user_id
                 /\ logs[n].timestamp >= cutoff
              THEN logs[n].xp_awarded ELSE 0)

\* award_xp lines 146-153 and get_user_xp lines 185-193: the rounded sum
\* of the pair's ledger amounts timestamped at or after cutoff.
rolling_total(logs, guild_id, user_id, cutoff) ==
    Round3(10 * SumXp(logs, Len(logs), guild_id, user_id, cutoff))

\* Slip: the window asked for is ignored.
get_user_xp_three_days(logs, guild_id, user_id, days, t) ==
    rolling_total(logs, guild_id, user_id, t - WindowSeconds)

get_user_xp(logs, guild_id, user_id, days, t) ==
    rolling_total(logs, guild_id, user_id, t - days * SecondsPerDay)

\* get_user_channel (lines 7-15): the channel id registered for the pair,
\* or None.
get_user_channel(table, guild_id, user_id) ==
    LET rows == {r \in table : r.guild_id = guild_id /\ r.user_id = user_id}
    IN  IF rows = {} THEN NoChannel ELSE (CHOOSE r \in rows : TRUE).channel_id

\* Slip: a row that was never stamped counts as stamped long ago.
get_active_users_counts_null(table, guild_id, days, t) ==
    [u \in Users |->
       Cardinality({r \in table :
          /\ r.guild_id = guild_id /\ r.user_id = u
          /\ r.last_journal_message >= t - days * SecondsPerDay})]

\* get_active_users (lines 246-254): the list of user ids returned, as
\* the number of times each id occurs in it.  A NULL timestamp compares
\* as unknown and its row is not selected.
get_active_users(table, guild_id, days, t) ==
    [u \in Users |->
       Cardinality({r \in table :
          /\ r.guild_id = guild_id /\ r.user_id = u
          /\ r.last_journal_message # NoStamp
          /\ r.last_journal_message >= t - days * SecondsPerDay})]

\* Slip: the timestamp is written to every row of the guild.
update_last_journal_message_guild(table, guild_id, user_id, t) ==
    {IF r.guild_id = guild_id
     THEN [r EXCEPT !.last_journal_message = t] ELSE r : r \in table}

\* update_last_journal_message (lines 235-243): stamp the pair's row.
update_last_journal_message(table, guild_id, user_id, t) ==
    {IF r.guild_id = guild_id /\ r.user_id = user_id
     THEN [r EXCEPT !.last_journal_message = t] ELSE r : r \in table}

NoStats == [guild_id |-> NoGuild, user_id |-> 0, xp_3d |-> 0, xp_24h |-> 0]
NoJournal == [seq |-> 0, guild_id |-> NoGuild, user_id |-> 0,
              channel_id |-> NoChannel, xp_amount |-> 0]
NoCall == [eligible |-> FALSE, base_xp |-> 0, message_length |-> 0]
NoResult == -1
\* No command has just been rejected or answered.
NoCommand == [cmd |-> "none"]
\* No sweep of a guild's activity role.
NoSweep == [pc |-> "none"]
\* os.environ.get("ANTHROPIC_API_KEY") of a variable unset or empty.
NoKey == ""

\* No on_message invocation is suspended.
Idle == inflight = {}

\* Messages whose handling has begun.
Started == Len(message_logs) + Cardinality({h \in inflight : h.pc = "award"})

\* on_message lines 16-21: messages of bots and direct messages are dropped.
on_message_qualifies(bot, guild) == ~bot /\ guild # NoGuild

\* on_message lines 16-42: a message arrives.  For a non-bot guild message
\* the handler asks can_award_xp, draws the base award and adds the length
\* bonus, then suspends in award_xp.  noRecent records, for the
\* properties, whether the ledger held no row of the pair from the last 60
\* seconds just then.
on_message ==
    /\ Started < MaxMessages + headStart
    /\ Cardinality(inflight) < 2
    /\ serial => Idle
    /\ \E bot \in BOOLEAN, guild \in Guilds \cup {NoGuild}, user \in Users,
          len \in Lengths, base_xp \in BaseDraws :
         /\ guild # NoGuild => <<guild, user>> \in Authorships
         /\ IF on_message_qualifies(bot, guild)
            THEN LET eligible == can_award_xp(message_logs, guild, user, now)
                 IN  /\ received' = received + 1
                     /\ inflight' = inflight \cup
                       {[seq |-> Started + 1, pc |-> "award", bot |-> bot,
                         personal_channel_id |-> NoChannel,
                         guild_id |-> guild, user_id |-> user, length |-> len,
                         xp_amount |-> Round3(xp_to_award(eligible, base_xp, len)),
                         noRecent |-> ~\E k \in 1..Len(message_logs) :
                                         /\ message_logs[k].guild_id = guild
                                         /\ message_logs[k].user_id = user
                                         /\ now - message_logs[k].timestamp <= 60]}
            ELSE UNCHANGED <<inflight, received>>
    /\ lastStats' = NoStats
    /\ UNCHANGED <<now, remVars, message_logs, user_xp, clockSteps, xpTrace,
                   serial, journalVars, fnVars, channelVars, extVars>>

\* Slip: the ledger keeps one row per pair; a later award overwrites it.
award_xp_insert_overwrites ==
    /\ \E h \in inflight :
         /\ h.pc = "award"
         /\ LET row == [guild_id |-> h.guild_id, user_id |-> h.user_id,
                        timestamp |-> now, xp_awarded |-> h.xp_amount]
                old == {k \in 1..Len(message_logs) :
                          /\ message_logs[k].guild_id = h.guild_id
                          /\ message_logs[k].user_id = h.user_id}
            IN  message_logs' = IF old = {} THEN Append(message_logs, row)
                                ELSE [message_logs EXCEPT ![CHOOSE k \in old : TRUE] = row]
         /\ xpTrace' = Append(xpTrace,
               [bot |-> h.bot, guild_id |-> h.guild_id, user_id |-> h.user_id,
                length |-> h.length, noRecent |-> h.noRecent])
         /\ inflight' = (inflight \ {h}) \cup {[h EXCEPT !.pc = "award_read"]}
    /\ UNCHANGED <<now, remVars, user_xp, clockSteps, serial, received, lastStats,
                   journalVars, fnVars, channelVars, extVars>>

\* Slip: an award of 0 is not written to the ledger.
award_xp_insert_skips_zero ==
    /\ \E h \in inflight :
         /\ h.pc = "award"
         /\ IF h.xp_amount = 0
            THEN UNCHANGED <<message_logs, xpTrace>>
            ELSE /\ message_logs' = Append(message_logs,
                       [guild_id |-> h.guild_id, user_id |-> h.user_id,
                        timestamp |-> now, xp_awarded |-> h.xp_amount])
                 /\ xpTrace' = Append(xpTrace,
                       [bot |-> h.bot, guild_id |-> h.guild_id, user_id |-> h.user_id,
                        length |-> h.length, noRecent |-> h.noRecent])
         /\ inflight' = (inflight \ {h}) \cup {[h EXCEPT !.pc = "award_read"]}
    /\ UNCHANGED <<now, remVars, user_xp, clockSteps, serial, received, lastStats,
                   journalVars, fnVars, channelVars, extVars>>

\* award_xp lines 121-135: round, stamp and append the ledger row.
award_xp_insert ==
    /\ \E h \in inflight :
         /\ h.pc = "award"
         /\ message_logs' = Append(message_logs,
               [guild_id |-> h.guild_id, user_id |-> h.user_id,
                timestamp |-> now, xp_awarded |-> h.xp_amount])
         /\ xpTrace' = Append(xpTrace,
               [bot |-> h.bot, guild_id |-> h.guild_id, user_id |-> h.user_id,
                length |-> h.length, noRecent |-> h.noRecent])
         /\ inflight' = (inflight \ {h}) \cup {[h EXCEPT !.pc = "award_read"]}
    /\ UNCHANGED <<now, remVars, user_xp, clockSteps, serial, received, lastStats,
                   journalVars, fnVars, channelVars, extVars>>

\* award_xp lines 138-144: look the snapshot row up.
award_xp_read ==
    /\ \E h \in inflight :
         /\ h.pc = "award_read"
         /\ inflight' = (inflight \ {h}) \cup
               {[h EXCEPT !.pc = IF user_xp[<<h.guild_id, h.user_id>>] # NoRow
                                 THEN "award_update" ELSE "award_create"]}
    /\ UNCHANGED <<now, remVars, message_logs, user_xp, clockSteps, xpTrace,
                   serial, received, lastStats, journalVars, fnVars, channelVars, extVars>>

\* on_message line 54, on return from award_xp: get_user_channel is asked
\* for the sender's personal channel; with None the handler is over,
\* otherwise it goes on to compare the channel of the message.
AfterAward(h) ==
    LET c == get_user_channel(user_private_channels, h.guild_id, h.user_id)
    IN  IF c = NoChannel THEN {}
        ELSE {[h EXCEPT !.pc = "journal", !.personal_channel_id = c]}

\* Slip: the snapshot is incremented by the award instead of recomputed.
award_xp_update_increment ==
    /\ \E h \in inflight :
         /\ h.pc = "award_update"
         /\ user_xp' = [user_xp EXCEPT ![<<h.guild_id, h.user_id>>] = @ + h.xp_amount]
         /\ inflight' = (inflight \ {h}) \cup AfterAward(h)
    /\ UNCHANGED <<now, remVars, message_logs, clockSteps, xpTrace,
                   serial, received, lastStats, journalVars, fnVars, channelVars, extVars>>

\* award_xp lines 145-160: the row exists; recompute the three-day total
\* from the ledger and store it.
award_xp_update ==
    /\ \E h \in inflight :
         /\ h.pc = "award_update"
         /\ user_xp' = [user_xp EXCEPT ![<<h.guild_id, h.user_id>>] =
               rolling_total(message_logs, h.guild_id, h.user_id, now - WindowSeconds)]
         /\ inflight' = (inflight \ {h}) \cup AfterAward(h)
    /\ UNCHANGED <<now, remVars, message_logs, clockSteps, xpTrace,
                   serial, received, lastStats, journalVars, fnVars, channelVars, extVars>>

\* award_xp lines 161-170: no row was found; insert one holding this
\* award.  (guild_id, user_id) is the primary key of user_xp: the insert
\* raises when another invocation has inserted the row meanwhile, and
\* neither award_xp nor on_message has a try statement, so the exception
\* leaves on_message.
award_xp_create ==
    /\ \E h \in inflight :
         /\ h.pc = "award_create"
         /\ LET p == <<h.guild_id, h.user_id>>
            IN  IF user_xp[p] = NoRow
                THEN /\ user_xp' = [user_xp EXCEPT ![p] = h.xp_amount]
                     /\ inflight' = (inflight \ {h}) \cup AfterAward(h)
                     /\ UNCHANGED escaped
                ELSE /\ inflight' = inflight \ {h}
                     /\ escaped' = escaped \cup {"on_message"}
                     /\ UNCHANGED user_xp
    /\ UNCHANGED <<now, remVars, message_logs, clockSteps, xpTrace,
                   serial, received, lastStats, journalVars, fnVars, channelVars,
                   lastCommand, restVars>>

\* The channels of a guild a message can be posted in.
MessageChannels(guild_id) == {c \in TextChannels : GuildOf(c) = guild_id}

\* on_message lines 55-57: the message was posted in some channel of its
\* guild; when that is the sender's personal channel the row's
\* last_journal_message becomes the current time.
on_message_journal ==
    /\ \E h \in inflight :
         /\ h.pc = "journal"
         /\ \E channel_id \in MessageChannels(h.guild_id) :
              /\ user_private_channels' =
                    IF channel_id = h.personal_channel_id
                    THEN update_last_journal_message(user_private_channels,
                                                     h.guild_id, h.user_id, now)
                    ELSE user_private_channels
              /\ lastJournal' = [seq |-> h.seq, guild_id |-> h.guild_id,
                                 user_id |-> h.user_id, channel_id |-> channel_id,
                                 xp_amount |-> h.xp_amount]
         /\ inflight' = inflight \ {h}
    /\ UNCHANGED <<now, remVars, message_logs, user_xp, clockSteps, xpTrace,
                   serial, received, lastStats, fnVars, channelVars, extVars>>

\* /xp stats (xp.py lines 61-95): outside a guild the command only
\* replies; in a guild it reads the invoker's totals of the last three
\* days and of the last day.
stats ==
    /\ serial => Idle
    /\ \E guild \in Guilds \cup {NoGuild}, user \in Users :
         /\ guild # NoGuild => <<guild, user>> \in Authorships
         /\ lastStats' =
               IF guild = NoGuild THEN NoStats
               ELSE [guild_id |-> guild, user_id |-> user,
                     xp_3d |-> get_user_xp(message_logs, guild, user, 3, now),
                     xp_24h |-> get_user_xp(message_logs, guild, user, 1, now)]
    /\ UNCHANGED <<now, remVars, message_logs, user_xp, inflight, clockSteps,
                   xpTrace, serial, received, journalVars, fnVars, channelVars, extVars>>

\* Seconds between two messages: within the cooldown, and just over it.
CooldownGaps == {40, 60, 61}

\* Time passes between two messages.
Pause ==
    /\ clockSteps < MaxClockSteps
    /\ Idle
    /\ \E d \in CooldownGaps : now' = now + d
    /\ clockSteps' = clockSteps + 1
    /\ lastStats' = NoStats
    /\ UNCHANGED <<remVars, message_logs, user_xp, inflight, xpTrace,
                   serial, received, journalVars, fnVars, channelVars, extVars>>

\* on_message lines 30-51 and award_xp line 122 on given arguments: the
\* amount written for one message.
xp_to_award_call ==
    /\ fnResult = NoResult
    /\ fnResult' = Round3(xp_to_award(fnCall.eligible, fnCall.base_xp,
                                      fnCall.message_length))
    /\ UNCHANGED <<now, remVars, message_logs, user_xp, inflight, clockSteps,
                   xpTrace, serial, received, lastStats, journalVars, fnCall, channelVars, extVars>>

\* Wall-clock time passes; a run crosses the three-day window once, and
\* no handler stays suspended for days.
Elapse ==
    /\ clockSteps < MaxClockSteps
    /\ serial => Idle
    /\ \E d \in ClockJumps :
         /\ d > CooldownSeconds => now < d /\ Idle
         /\ now' = now + d
    /\ clockSteps' = clockSteps + 1
    /\ lastStats' = NoStats
    /\ UNCHANGED <<remVars, message_logs, user_xp, inflight, xpTrace,
                   serial, received, journalVars, fnVars, channelVars, extVars>>

(* -------------------------- personal channels ------------------------- *)

schedulerVars == <<reminders, botReady, loopState, dueList, dbFaults, history>>
engineVars == <<message_logs, user_xp, inflight, clockSteps, xpTrace, serial, received, lastStats, lastJournal, fnCall, fnResult, moreVars>>

\* (guild, user) of the members the channel handlers run for.
Members == Authorships

\* The rows of the table's primary key (guild_id, user_id).
PairRows(table, guild_id, user_id) ==
    {r \in table : r.guild_id = guild_id /\ r.user_id = user_id}

\* Slip: the stale row is left in the table.
delete_user_channel_keeps(table, guild_id, user_id) == table

\* delete_user_channel (lines 63-70).
delete_user_channel(table, guild_id, user_id) ==
    table \ PairRows(table, guild_id, user_id)

\* Slip: the table has no primary key.
insert_user_channel_no_key(table, guild_id, user_id, channel_id) ==
    table \cup {[guild_id |-> guild_id, user_id |-> user_id,
                 channel_id |-> channel_id, last_journal_message |-> NoStamp]}

\* create_user_channel lines 54-60: the INSERT.  (guild_id, user_id) is
\* the primary key (schema.py lines 24-25): with a row of the pair in the
\* table the statement raises and the table stays as it is.
insert_user_channel(table, guild_id, user_id, channel_id) ==
    IF PairRows(table, guild_id, user_id) # {} THEN table
    ELSE table \cup {[guild_id |-> guild_id, user_id |-> user_id,
                      channel_id |-> channel_id, last_journal_message |-> NoStamp]}

\* create_user_channel lines 46-51: the UPDATE.
update_user_channel(table, guild_id, user_id, channel_id) ==
    {IF r.guild_id = guild_id /\ r.user_id = user_id
     THEN [r EXCEPT !.channel_id = channel_id] ELSE r : r \in table}

\* The id of the next text channel the bot creates in a guild.
NewChannel(guild_id) == 10 * guild_id + 5 + created

\* Where a handler goes on once the user has no personal channel: set
\* checks that the channel given is free, add and on_member_join create one.
Provision(cmd) == IF cmd = "set" THEN "check_assigned" ELSE "create"

\* Slip: a live personal channel does not end the handler.
StartCall_replaces_live(cmd, guild_id, user_id, channel_id) ==
    LET existing_channel_id == get_user_channel(user_private_channels, guild_id, user_id)
        call == [id |-> IF \E h \in channelCalls : h.id = 1 THEN 2 ELSE 1,
                 cmd |-> cmd, guild_id |-> guild_id, user_id |-> user_id,
                 existing_channel_id |-> existing_channel_id,
                 channel_id |-> channel_id, pc |-> "heal"]
    IN  IF existing_channel_id = NoChannel \/ existing_channel_id \in liveChannels
        THEN IF cmd = "rename" THEN {} ELSE {[call EXCEPT !.pc = Provision(cmd)]}
        ELSE {call}

\* The first lines of a handler (add 81-91, rename 143-154, set 182-193,
\* on_member_join 298-304): get_user_channel is awaited and the stored id
\* is resolved.  A live channel ends add, set and on_member_join, no row
\* ends rename, a live channel lets rename edit the platform channel, and
\* a stale id sends the handler to delete_user_channel.
StartCall(cmd, guild_id, user_id, channel_id) ==
    LET existing_channel_id == get_user_channel(user_private_channels, guild_id, user_id)
        call == [id |-> IF \E h \in channelCalls : h.id = 1 THEN 2 ELSE 1,
                 cmd |-> cmd, guild_id |-> guild_id, user_id |-> user_id,
                 existing_channel_id |-> existing_channel_id,
                 channel_id |-> channel_id, pc |-> "heal"]
    IN  IF existing_channel_id = NoChannel
        THEN IF cmd = "rename" THEN {} ELSE {[call EXCEPT !.pc = Provision(cmd)]}
        ELSE IF existing_channel_id \in liveChannels THEN {} ELSE {call}

\* add lines 82-89, set lines 183-191, on_member_join lines 299-302: the
\* user's stored channel resolves, and the handler ends there; add and
\* set reply, on_member_join returns silently.
AlreadyHas(cmd, guild_id, user_id) ==
    LET existing_channel_id == get_user_channel(user_private_channels, guild_id, user_id)
    IN  IF existing_channel_id # NoChannel /\ existing_channel_id \in liveChannels
        THEN [cmd |-> cmd,
              reply |-> IF cmd = "join" THEN "" ELSE "already has a personal channel",
              existing_channel_id |-> existing_channel_id]
        ELSE NoCommand

\* What no step of a channel handler touches; the step is not the
\* rejection of a command.
UnchangedByHandler == UNCHANGED <<now, schedulerVars, liveGuilds, engineVars>>
UnchangedByCall ==
    /\ lastCommand' = NoCommand
    /\ UnchangedByHandler

\* Channel names the commands are given.
ChannelNames ==
    {<<"a">>, <<"A", " ", "1">>, <<"a", "!">>, <<"-", "a">>, <<"a", "_">>, <<>>,
     [i \in 1..(MaxNameLength + 1) |-> "a"]}

\* str.lower() and .replace(" ", "-") (line 53).
normalized(name) ==
    [i \in 1..Len(name) |-> IF name[i] = " " THEN "-" ELSE
                              IF name[i] = "A" THEN "a" ELSE name[i]]

\* The characters of [a-z0-9_-] the names are made of.
NameChars == {"a", "1", "_", "-"}

\* _validate_channel_name (lines 42-63): is_valid and the error message.
_validate_channel_name(name) ==
    IF Len(name) < 1 THEN [is_valid |-> FALSE, error_message |-> "empty"]
    ELSE IF Len(name) > MaxNameLength
    THEN [is_valid |-> FALSE, error_message |-> "too long"]
    ELSE IF \E i \in 1..Len(name) : normalized(name)[i] \notin NameChars
    THEN [is_valid |-> FALSE, error_message |-> "characters"]
    ELSE IF normalized(name)[1] \in {"-", "_"} \/ normalized(name)[Len(name)] \in {"-", "_"}
    THEN [is_valid |-> FALSE, error_message |-> "hyphen or underscore at an end"]
    ELSE [is_valid |-> TRUE, error_message |-> ""]

\* The reply "Invalid channel name: ..." of add (lines 75-77) and rename
\* (lines 137-139), or no rejection.
Rejection(cmd, validity) ==
    IF validity.is_valid THEN NoCommand
    ELSE [cmd |-> cmd, reply |-> "Invalid channel name",
          error_message |-> validity.error_message]

\* add lines 73-91: with a name out of policy the command returns at line
\* 77; otherwise it looks the user's channel up.
add_lookup(validity, guild_id, user_id) ==
    IF validity.is_valid
    THEN channelCalls \cup StartCall("add", guild_id, user_id, NoChannel)
    ELSE channelCalls

\* /channel add (lines 67-91): outside a guild or with an invalid name
\* the command only replies.
channel_add ==
    /\ Cardinality(channelCalls) < 2
    /\ calls < MaxCalls
    /\ calls' = calls + 1
    /\ \E p \in Members, name \in ChannelNames :
         LET validity == _validate_channel_name(name)
         IN  /\ channelCalls' = add_lookup(validity, p[1], p[2])
             /\ lastCommand' = IF validity.is_valid
                                THEN AlreadyHas("add", p[1], p[2])
                                ELSE Rejection("add", validity)
    /\ UNCHANGED <<user_private_channels, liveChannels, created>>
    /\ UnchangedByHandler

\* /channel rename (lines 129-159).
channel_rename ==
    /\ Cardinality(channelCalls) < 2
    /\ calls < MaxCalls
    /\ calls' = calls + 1
    /\ \E p \in Members, name \in ChannelNames :
         LET validity == _validate_channel_name(name)
         IN  /\ channelCalls' = IF validity.is_valid
                                 THEN channelCalls \cup StartCall("rename", p[1], p[2], NoChannel)
                                 ELSE channelCalls
             /\ lastCommand' = Rejection("rename", validity)
    /\ UNCHANGED <<user_private_channels, liveChannels, created>>
    /\ UnchangedByHandler

\* /channel set (lines 174-193): an administrator names a user and a
\* text channel of the guild.
channel_set ==
    /\ Cardinality(channelCalls) < 2
    /\ calls < MaxCalls
    /\ calls' = calls + 1
    /\ \E p \in Members, channel \in liveChannels :
         /\ GuildOf(channel) = p[1]
         /\ channelCalls' = channelCalls \cup StartCall("set", p[1], p[2], channel)
         /\ lastCommand' = AlreadyHas("set", p[1], p[2])
    /\ UNCHANGED <<user_private_channels, liveChannels, created>>
    /\ UnchangedByHandler

\* on_member_join (lines 288-304): a bot joining is ignored.
on_member_join ==
    /\ Cardinality(channelCalls) < 2
    /\ calls < MaxCalls
    /\ calls' = calls + 1
    /\ \E p \in Members, bot \in BOOLEAN :
         /\ channelCalls' = IF bot THEN channelCalls
                            ELSE channelCalls \cup StartCall("join", p[1], p[2], NoChannel)
         /\ lastCommand' = IF bot THEN NoCommand ELSE AlreadyHas("join", p[1], p[2])
    /\ UNCHANGED <<user_private_channels, liveChannels, created>>
    /\ UnchangedByHandler

\* The self-heal (add 91, rename 152-154, set 193, on_member_join 304):
\* the row is deleted; rename then replies and ends, the others go on as
\* for a user without personal channel.
channel_heal ==
    /\ \E h \in channelCalls :
         /\ h.pc = "heal"
         /\ user_private_channels' =
               delete_user_channel(user_private_channels, h.guild_id, h.user_id)
         /\ channelCalls' = (channelCalls \ {h}) \cup
               (IF h.cmd = "rename" THEN {} ELSE {[h EXCEPT !.pc = Provision(h.cmd)]})
    /\ UNCHANGED <<liveChannels, created, calls>>
    /\ UnchangedByCall

\* add lines 93-105 and on_member_join lines 306-315: the text channel is
\* created, or the platform refuses (a name already taken in add, missing
\* permissions, an HTTP error) and the handler ends.
channel_create ==
    /\ \E h \in channelCalls, ok \in BOOLEAN :
         /\ h.pc = "create"
         /\ ok => created < MaxCreated
         /\ IF ok
            THEN /\ liveChannels' = liveChannels \cup {NewChannel(h.guild_id)}
                 /\ created' = created + 1
                 /\ channelCalls' = (channelCalls \ {h}) \cup
                       {[h EXCEPT !.pc = "store_read",
                                  !.channel_id = NewChannel(h.guild_id)]}
            ELSE /\ channelCalls' = channelCalls \ {h}
                 /\ UNCHANGED <<liveChannels, created>>
    /\ UNCHANGED <<user_private_channels, calls>>
    /\ UnchangedByCall

\* set lines 195-207: a channel registered for some user of the guild is
\* unconfigured.
channel_set_check ==
    /\ \E h \in channelCalls :
         /\ h.pc = "check_assigned"
         /\ channelCalls' = (channelCalls \ {h}) \cup
               (IF \E r \in user_private_channels :
                      r.guild_id = h.guild_id /\ r.channel_id = h.channel_id
                THEN {} ELSE {[h EXCEPT !.pc = "store_read"]})
    /\ UNCHANGED <<user_private_channels, liveChannels, created, calls>>
    /\ UnchangedByCall

\* create_user_channel lines 37-42: is there a row of the pair?
create_user_channel_read ==
    /\ \E h \in channelCalls :
         /\ h.pc = "store_read"
         /\ channelCalls' = (channelCalls \ {h}) \cup
               {[h EXCEPT !.pc =
                   IF PairRows(user_private_channels, h.guild_id, h.user_id) # {}
                   THEN "store_update" ELSE "store_insert"]}
    /\ UNCHANGED <<user_private_channels, liveChannels, created, calls>>
    /\ UnchangedByCall

\* Where a handler goes on once the row is stored: on_member_join
\* welcomes the member and grants the activity role, add and set end.
AfterStore(h) == IF h.cmd = "join" THEN {[h EXCEPT !.pc = "grant"]} ELSE {}

\* create_user_channel lines 44-51.
create_user_channel_update ==
    /\ \E h \in channelCalls :
         /\ h.pc = "store_update"
         /\ user_private_channels' =
               update_user_channel(user_private_channels, h.guild_id, h.user_id,
                                   h.channel_id)
         /\ channelCalls' = (channelCalls \ {h}) \cup AfterStore(h)
    /\ UNCHANGED <<liveChannels, created, calls>>
    /\ UnchangedByCall

\* create_user_channel lines 52-60; an exception is caught and logged by
\* the handler (add 123-125, set 225-227, on_member_join 348-349).
create_user_channel_insert ==
    /\ \E h \in channelCalls :
         /\ h.pc = "store_insert"
         /\ user_private_channels' =
               insert_user_channel(user_private_channels, h.guild_id, h.user_id,
                                   h.channel_id)
         /\ channelCalls' = (channelCalls \ {h}) \cup
               (IF PairRows(user_private_channels, h.guild_id, h.user_id) # {}
                THEN {} ELSE AfterStore(h))
    /\ UNCHANGED <<liveChannels, created, calls>>
    /\ UnchangedByCall

\* A registered personal channel is deleted on the platform.
personal_channel_delete ==
    /\ \E r \in user_private_channels :
         /\ r.channel_id \in liveChannels
         /\ liveChannels' = liveChannels \ {r.channel_id}
    /\ UNCHANGED <<user_private_channels, channelCalls, created, calls>>
    /\ UnchangedByCall

(* --------------------------- text functions --------------------------- *)

\* Strings are sequences of one-character strings.
DigitChars == {"0", "1", "2", "3", "4", "5", "6", "7", "8", "9"}
UnitChars == {"s", "m", "h", "d", "w"}

DigitValue(c) ==
    CASE c = "0" -> 0 [] c = "1" -> 1 [] c = "2" -> 2 [] c = "3" -> 3 [] c = "4" -> 4
      [] c = "5" -> 5 [] c = "6" -> 6 [] c = "7" -> 7 [] c = "8" -> 8 [] c = "9" -> 9

\* int() of a run of decimal digits.
RECURSIVE IntOfDigits(_)
IntOfDigits(ds) ==
    IF ds = <<>> THEN 0
    ELSE 10 * IntOfDigits(SubSeq(ds, 1, Len(ds) - 1)) + DigitValue(ds[Len(ds)])

\* str.lower() on the letters the inputs are made of.
LowerChar(c) ==
    CASE c = "S" -> "s" [] c = "M" -> "m" [] c = "H" -> "h" [] c = "D" -> "d"
      [] c = "W" -> "w" [] OTHER -> c
Lower(s) == [i \in 1..Len(s) |-> LowerChar(s[i])]

\* The position after the digits that start at position i.
RECURSIVE DigitsEnd(_, _)
DigitsEnd(s, i) ==
    IF i <= Len(s) /\ s[i] \in DigitChars THEN DigitsEnd(s, i + 1) ELSE i

\* re.findall(r'(\d+)([smhdw])', s) from position i on: the scan moves
\* right; at a digit, \d+ takes the whole run and wants a unit letter
\* next; a shorter run is followed by a digit, so backtracking finds
\* nothing and the scan resumes one position further.
RECURSIVE findall(_, _)
findall(s, i) ==
    IF i > Len(s) THEN <<>>
    ELSE IF s[i] \notin DigitChars THEN findall(s, i + 1)
    ELSE LET j == DigitsEnd(s, i)
         IN  IF j <= Len(s) /\ s[j] \in UnitChars
             THEN <<[value |-> SubSeq(s, i, j - 1), unit |-> s[j]]>> \o findall(s, j + 1)
             ELSE findall(s, i + 1)

\* timedelta.max.days: a timedelta of more days raises OverflowError.
MaxTimedeltaDays == 999999999

\* What a call returns or raises.
None == [kind |-> "None"]
OverflowError == [kind |-> "OverflowError"]
\* No call has been made.
NotCalled == [kind |-> "pending"]

\* A duration, normalised as timedelta does: whole days and the seconds
\* of the last day.
Duration(days, seconds) == [kind |-> "timedelta", days |-> days, seconds |-> seconds]

\* The days and seconds of value units (lines 28-37), without the range
\* check; weeks beyond every range count as one day too many.
DurationOf(value, unit) ==
    CASE unit = "s" -> Duration(value \div SecondsPerDay, value % SecondsPerDay)
      [] unit = "m" -> Duration(value \div 1440, (value % 1440) * 60)
      [] unit = "h" -> Duration(value \div 24, (value % 24) * 3600)
      [] unit = "d" -> Duration(value, 0)
      [] unit = "w" -> IF value > MaxTimedeltaDays \div 7
                       THEN Duration(MaxTimedeltaDays + 1, 0)
                       ELSE Duration(7 * value, 0)

Plus(a, b) ==
    Duration(a.days + b.days + (a.seconds + b.seconds) \div SecondsPerDay,
             (a.seconds + b.seconds) % SecondsPerDay)

\* The range check of the timedelta constructor and of its addition.
timedelta(d) == IF d.days > MaxTimedeltaDays THEN OverflowError ELSE d

\* Lines 25-37: total after the first n matches, or the OverflowError one
\* of the constructions or additions has raised.
RECURSIVE total_after(_, _)
total_after(matches, n) ==
    IF n = 0 THEN Duration(0, 0)
    ELSE LET total == total_after(matches, n - 1)
             term == timedelta(DurationOf(IntOfDigits(matches[n].value), matches[n].unit))
         IN  IF total = OverflowError \/ term = OverflowError THEN OverflowError
             ELSE timedelta(Plus(total, term))

\* parse_time_interval (lines 13-42).
parse_time_interval(time_str) ==
    LET matches == findall(Lower(time_str), 1)
        total == total_after(matches, Len(matches))
    IN  IF matches = <<>> THEN None
        ELSE IF total = Duration(0, 0) THEN None
        ELSE total

\* Characters the interval strings are made of.
TimeChars == {"0", "1", "2", "s", "h", "H", "w", "x"}
\* The intervals of the documentation, and intervals at and beyond the
\* largest timedelta.
TimeExamples ==
    {<<"1", "h", "3", "0", "m">>, <<"2", "d">>, <<"1", "h", "1", "h">>,
     <<"a", "b", "c">>, <<"0", "s">>,
     <<"9", "9", "9", "9", "9", "9", "9", "9", "9", "d">>,
     <<"1", "0", "0", "0", "0", "0", "0", "0", "0", "0", "d">>,
     <<"9", "9", "9", "9", "9", "9", "9", "9", "9", "d", "1", "d">>}
TimeStrings == UNION {[1..n -> TimeChars] : n \in 0..MaxText} \cup TimeExamples

\* parse_time_interval on a given string.
parse_time_interval_call ==
    /\ fnResult = NotCalled
    /\ fnResult' = parse_time_interval(fnCall.time_str)
    /\ UNCHANGED <<now, remVars, message_logs, user_xp, inflight, clockSteps,
                   xpTrace, serial, received, lastStats, journalVars, fnCall, channelVars, extVars>>

\* str.strip() and the whitespace int() skips, for the blank.
RECURSIVE strip(_)
strip(s) ==
    IF s = <<>> THEN s
    ELSE IF Head(s) = " " THEN strip(Tail(s))
    ELSE IF s[Len(s)] = " " THEN strip(SubSeq(s, 1, Len(s) - 1))
    ELSE s

\* s.split("/"): the segments between the slashes, empty ones included.
RECURSIVE split(_)
split(s) ==
    IF \A i \in 1..Len(s) : s[i] # "/" THEN <<s>>
    ELSE LET i == CHOOSE k \in 1..Len(s) :
                    s[k] = "/" /\ \A m \in 1..(k - 1) : s[m] # "/"
         IN  <<SubSeq(s, 1, i - 1)>> \o split(SubSeq(s, i + 1, Len(s)))

\* The digits of an integer literal: blanks around it and one sign are
\* dropped.
Unsigned(part) ==
    LET t == strip(part)
    IN  IF t # <<>> /\ Head(t) \in {"-", "+"} THEN Tail(t) ELSE t

\* Whether int(part) returns (it raises ValueError otherwise).
IsInt(part) ==
    /\ Unsigned(part) # <<>>
    /\ \A i \in 1..Len(Unsigned(part)) : Unsigned(part)[i] \in DigitChars

\* int(part) of a part for which it returns.
int(part) ==
    IF Head(strip(part)) = "-" THEN 0 - IntOfDigits(Unsigned(part))
    ELSE IntOfDigits(Unsigned(part))

Link(guild_id, channel_id, message_id) ==
    [kind |-> "tuple", guild_id |-> guild_id, channel_id |-> channel_id,
     message_id |-> message_id]

\* Slip: the ids are read from the front of the link.
parse_message_link_from_front(link) ==
    LET parts == split(strip(link))
    IN  IF Len(parts) < 3 THEN None
        ELSE IF IsInt(parts[1]) /\ IsInt(parts[2]) /\ IsInt(parts[3])
        THEN Link(int(parts[1]), int(parts[2]), int(parts[3]))
        ELSE None

\* parse_message_link (lines 45-60).
parse_message_link(link) ==
    LET parts == split(strip(link))
        n == Len(parts)
    IN  IF n < 3 THEN None
        ELSE IF IsInt(parts[n - 2]) /\ IsInt(parts[n - 1]) /\ IsInt(parts[n])
        THEN Link(int(parts[n - 2]), int(parts[n - 1]), int(parts[n]))
        ELSE None

\* Characters the message links are made of.
LinkChars == {"1", "2", "/", "x", " ", "-"}
\* The links of the documentation.
LinkExamples ==
    {<<".", ".", ".", "/", "1", "1", "1", "/", "2", "2", "2", "/", "3", "3", "3">>,
     <<"2", "2", "2", "/", "3", "3", "3">>}
LinkStrings == UNION {[1..n -> LinkChars] : n \in 0..MaxText} \cup LinkExamples

\* parse_message_link on a given string.
parse_message_link_call ==
    /\ fnResult = NotCalled
    /\ fnResult' = parse_message_link(fnCall.link)
    /\ UNCHANGED <<now, remVars, message_logs, user_xp, inflight, clockSteps,
                   xpTrace, serial, received, lastStats, journalVars, fnCall, channelVars, extVars>>

(* ------------------------------ /remindme ----------------------------- *)

\* datetime.max - datetime.min, in days: the sum at line 181 raises
\* OverflowError for every interval of more days, whatever the date.
MaxDatetimeDays == 3652058

\* The time and message_link options the command is given.
TimeInputs ==
    {<<"2", "S">>, <<"0", "s">>, <<"4", "0", "0", "0", "0", "0", "0", "d">>}
LinkInputs ==
    {<<"1", "/", "1", "1", "/", "7">>, <<"2", "/", "2", "1", "/", "7">>,
     <<"1", "/", "x", "/", "7">>}

\* parse_time_interval and parse_message_link of the options.
ParsedTime == [time \in TimeInputs |-> parse_time_interval(time)]
ParsedLink == [message_link \in LinkInputs |-> parse_message_link(message_link)]

\* What one invocation leaves: the table, the reply sent with
\* ctx.respond ("" when none was sent), the exception that left the
\* handler ("" when it returned) and the interval parsed.
Answer(rems, reply, raised, delta) ==
    [reminders |-> rems, reply |-> reply, raised |-> raised, delta |-> delta]

\* Slip: the reminder is stored before the link is looked at.
remindme_stores_before_link(rems, guild_id, user_id, channel_id, time, message_link, t) ==
    LET delta == ParsedTime[time]
        parsed == ParsedLink[message_link]
        stored == create_reminder(rems, guild_id, user_id, channel_id,
                                  t + delta.days * SecondsPerDay + delta.seconds)
    IN  IF guild_id = NoGuild THEN Answer(rems, "only in a server", "", None)
        ELSE IF delta = OverflowError THEN Answer(rems, "", "OverflowError", None)
        ELSE IF delta = None THEN Answer(rems, "Invalid time format", "", None)
        ELSE IF delta.days > MaxDatetimeDays THEN Answer(rems, "", "OverflowError", delta)
        ELSE IF parsed = None THEN Answer(stored, "Invalid message link", "", delta)
        ELSE IF parsed.guild_id # guild_id THEN Answer(stored, "different server", "", delta)
        ELSE Answer(stored, "Got it", "", delta)

\* remindme (lines 131-198) invoked at time t.  The preview fetched at
\* lines 165-178 goes into a column of the row the scheduler does not
\* read, and every failure of the fetch is swallowed there.
remindme_outcome(rems, guild_id, user_id, channel_id, time, message_link, t) ==
    LET delta == ParsedTime[time]
        parsed == ParsedLink[message_link]
    IN  IF guild_id = NoGuild THEN Answer(rems, "only in a server", "", None)
        \* line 138: an exception of parse_time_interval leaves the handler
        ELSE IF delta = OverflowError THEN Answer(rems, "", "OverflowError", None)
        ELSE IF delta = None THEN Answer(rems, "Invalid time format", "", None)
        ELSE IF parsed = None THEN Answer(rems, "Invalid message link", "", delta)
        ELSE IF parsed.guild_id # guild_id THEN Answer(rems, "different server", "", delta)
        \* line 181: datetime + timedelta beyond datetime.max
        ELSE IF delta.days > MaxDatetimeDays THEN Answer(rems, "", "OverflowError", delta)
        ELSE Answer(create_reminder(rems, guild_id, user_id, channel_id,
                                    t + delta.days * SecondsPerDay + delta.seconds),
                    "Got it", "", delta)

\* /remindme, the whole command: in a direct message (no guild) or in a
\* channel of a guild.
remindme_command ==
    /\ calls < MaxCalls
    /\ calls' = calls + 1
    /\ Len(reminders) < MaxReminders
    /\ \E p \in Members, dm \in BOOLEAN,
          time \in TimeInputs, message_link \in LinkInputs :
       \E channel \in {c \in liveChannels : GuildOf(c) = p[1]} :
            LET guild_id == IF dm THEN NoGuild ELSE p[1]
                r == remindme_outcome(reminders, guild_id, p[2], channel,
                                      time, message_link, now)
            IN  /\ reminders' = r.reminders
                /\ lastCommand' = [cmd |-> "remindme", guild_id |-> guild_id,
                                   user_id |-> p[2], channel_id |-> channel,
                                   delta |-> r.delta,
                                   reply |-> r.reply, raised |-> r.raised]
    /\ UNCHANGED <<now, botReady, loopState, dueList, dbFaults, history,
                   liveGuilds, liveChannels, message_logs, user_xp, inflight,
                   clockSteps, xpTrace, serial, received, lastStats, journalVars,
                   fnVars, channelCalls, created, moreVars>>

\* What the commands of the settings, the assistant and the roles leave
\* alone.
baseVars == <<now, schedulerVars, liveGuilds, liveChannels, message_logs, user_xp,
              inflight, clockSteps, xpTrace, serial, received, lastStats,
              journalVars, fnVars, channelCalls, created, escaped, startVars>>

\* What start-up leaves alone.
appVars == <<now, schedulerVars, liveGuilds, liveChannels, message_logs, user_xp,
             inflight, clockSteps, xpTrace, serial, received, lastStats,
             journalVars, fnVars, channelVars, lastCommand, escaped,
             settingsVars, claudeVars, roleVars, headStart, manageRoles>>


(* ------------------------------ migrations ---------------------------- *)

\* The names of MIGRATIONS, in the order of the list.
MIGRATIONS == <<"001_create_guild_settings",
                "002_add_last_journal_message",
                "003_add_active_role_id">>

\* The tables and the later-added columns a database file may hold.
UserChannelsTable == "user_private_channels"
JournalColumn == "user_private_channels.last_journal_message"
SettingsTable == "guild_settings"
RoleColumn == "guild_settings.active_role_id"
MigrationsTable == "migrations"

\* Database files left by earlier versions: a column only in its table.
OldSchemas ==
    {s \in SUBSET {UserChannelsTable, JournalColumn, SettingsTable, RoleColumn} :
       /\ JournalColumn \in s => UserChannelsTable \in s
       /\ RoleColumn \in s => SettingsTable \in s}

\* metadata.create_all: a table that is missing is created with the
\* columns schema.py lists; a table that exists is left as it is.
create_all(s) ==
    s \cup (IF UserChannelsTable \in s THEN {}
            ELSE {UserChannelsTable, JournalColumn})
      \cup (IF SettingsTable \in s THEN {}
            ELSE {SettingsTable, RoleColumn})

\* ALTER TABLE table ADD COLUMN column: SQLite raises if the table is
\* missing or already has the column.
add_column(s, table, column) ==
    IF table \notin s \/ column \in s
    THEN [schema |-> s, raised |-> TRUE]
    ELSE [schema |-> s \cup {column}, raised |-> FALSE]

\* Slip: the columns are added without asking _column_exists first.
migration_func_adds_unasked(i, s) ==
    IF i = 1 THEN [schema |-> s \cup {SettingsTable}, raised |-> FALSE]
    ELSE IF i = 2 THEN add_column(s, UserChannelsTable, JournalColumn)
    ELSE add_column(s, SettingsTable, RoleColumn)

\* The i-th migration function on schema s: CREATE TABLE IF NOT EXISTS
\* for the first, ALTER TABLE guarded by _column_exists for the others.
migration_func(i, s) ==
    IF i = 1 THEN [schema |-> s \cup {SettingsTable}, raised |-> FALSE]
    ELSE IF i = 2
    THEN IF JournalColumn \in s THEN [schema |-> s, raised |-> FALSE]
         ELSE add_column(s, UserChannelsTable, JournalColumn)
    ELSE IF RoleColumn \in s THEN [schema |-> s, raised |-> FALSE]
         ELSE add_column(s, SettingsTable, RoleColumn)

Recorded == {migrations[k] : k \in 1..Len(migrations)}

\* The process is not running.
Down == [pc |-> "down", applied |-> {}, i |-> 0, invoked |-> {},
         complete |-> FALSE]

\* The position after the i-th entry of the list has been dealt with.
AfterEntry(b) ==
    [b EXCEPT !.pc = IF b.i = Len(MIGRATIONS) THEN "done" ELSE "loop",
              !.i = b.i + 1]

\* main() is started (main.py line 69).
start ==
    /\ boot.pc = "down"
    /\ boots < MaxBoots
    /\ boots' = boots + 1
    /\ boot' = [Down EXCEPT !.pc = "init_database"]
    /\ UNCHANGED <<db_schema, migrations, runs, changes, crashed, appVars>>

\* init_database (actions.py lines 295-303).
init_database ==
    /\ boot.pc = "init_database"
    /\ db_schema' = create_all(db_schema)
    /\ boot' = [boot EXCEPT !.pc = "run_migrations"]
    /\ UNCHANGED <<migrations, boots, runs, changes, crashed, appVars>>

\* run_migrations lines 48-60: the tracking table is created if missing
\* and the applied names are read, once.
run_migrations ==
    /\ boot.pc = "run_migrations"
    /\ db_schema' = db_schema \cup {MigrationsTable}
    /\ boot' = [boot EXCEPT !.pc = "loop", !.i = 1, !.applied = Recorded,
                            !.complete = (Len(migrations) = Len(MIGRATIONS))]
    /\ UNCHANGED <<migrations, boots, runs, changes, crashed, appVars>>

\* Lines 63-64, the name is in applied: the entry is passed over.
skip_applied ==
    /\ boot.pc = "loop"
    /\ MIGRATIONS[boot.i] \in boot.applied
    /\ boot' = AfterEntry(boot)
    /\ UNCHANGED <<db_schema, migrations, boots, runs, changes, crashed, appVars>>

\* Lines 63-66, the name is not in applied: the migration function runs.
\* Its statements are DDL, which the sqlite3 driver executes outside any
\* transaction: what it changed stays changed whatever happens next.
run_pending ==
    /\ boot.pc = "loop"
    /\ MIGRATIONS[boot.i] \notin boot.applied
    /\ LET r == migration_func(boot.i, db_schema)
       IN  /\ db_schema' = r.schema
           /\ runs' = [runs EXCEPT ![boot.i] = @ + 1]
           /\ changes' = [changes EXCEPT ![boot.i] =
                            IF r.schema # db_schema THEN @ + 1 ELSE @]
           /\ crashed' = (crashed \/ r.raised)
           /\ boot' = IF r.raised THEN Down
                      ELSE [boot EXCEPT !.pc = "record",
                                        !.invoked = @ \cup {boot.i}]
    /\ UNCHANGED <<migrations, boots, appVars>>

\* Lines 67-68: the name is inserted and committed; name is the primary
\* key of the table, so inserting a recorded name raises.
record_migration ==
    /\ boot.pc = "record"
    /\ IF MIGRATIONS[boot.i] \in Recorded
       THEN /\ crashed' = TRUE
            /\ boot' = Down
            /\ UNCHANGED migrations
       ELSE /\ migrations' = Append(migrations, MIGRATIONS[boot.i])
            /\ boot' = AfterEntry(boot)
            /\ UNCHANGED crashed
    /\ UNCHANGED <<db_schema, boots, runs, changes, appVars>>

\* The process ends, at any point: killed during start-up, or shut down
\* later. What was committed stays in the database file.
interrupt ==
    /\ boot.pc # "down"
    /\ boot' = Down
    /\ UNCHANGED <<db_schema, migrations, boots, runs, changes, crashed, appVars>>

(* ----------------------------- guild settings ------------------------- *)

\* NULL in the columns welcome_message and active_role_id.
NoMessage == "NULL"
NoRole == 0
\* Contents of the message /channels welcome copies, and role ids.
Templates == {"hi {name}", "see {channel}"}
RoleIds == {31, 32}

\* The rows of the table's primary key guild_id.
SettingsRows(table, guild_id) == {r \in table : r.guild_id = guild_id}

\* Slip: the update writes the whole row, as a fresh insert would.
settings_update_whole_row(table, guild_id, column, value) ==
    {IF r.guild_id = guild_id
     THEN [[guild_id |-> guild_id, welcome_message |-> NoMessage,
            active_role_id |-> NoRole] EXCEPT ![column] = value]
     ELSE r : r \in table}

\* set_welcome_message lines 219-225, set_active_role_id lines 279-285:
\* UPDATE ... SET column = value WHERE guild_id = ...
settings_update(table, guild_id, column, value) ==
    {IF r.guild_id = guild_id THEN [r EXCEPT ![column] = value] ELSE r :
       r \in table}

\* set_welcome_message lines 226-232, set_active_role_id lines 286-292:
\* INSERT of guild_id and the one column; the other column is NULL.
settings_insert(table, guild_id, column, value) ==
    table \cup {[[guild_id |-> guild_id, welcome_message |-> NoMessage,
                  active_role_id |-> NoRole] EXCEPT ![column] = value]}

\* A set operation enters: the guild's row in guilds is ensured (lines
\* 206-212, 266-272) and the call suspends at the SELECT on guild_settings.
StartSet(cmd, guild_id, column, value) ==
    {[id |-> calls + 1, cmd |-> cmd, guild_id |-> guild_id, column |-> column,
      value |-> value, pc |-> "read", existing_record |-> FALSE]}

\* /channels welcome (channel.py lines 229-285) once the linked message
\* is fetched: a message without text is unconfigured, any other content is
\* handed to set_welcome_message.
welcome ==
    /\ calls < MaxCalls
    /\ calls' = calls + 1
    /\ \E guild_id \in Guilds, content \in Templates \cup {""} :
         IF content = ""
         THEN /\ lastCommand' = [cmd |-> "welcome", guild_id |-> guild_id,
                                 reply |-> "That message has no text content"]
              /\ UNCHANGED settingsCalls
         ELSE /\ lastCommand' = NoCommand
              /\ settingsCalls' = settingsCalls \cup
                    StartSet("welcome", guild_id, "welcome_message", content)
    /\ UNCHANGED <<baseVars, roleVars, claudeVars, guild_settings>>

\* /roles set_active_role (roles.py lines 109-123).
set_active_role ==
    /\ calls < MaxCalls
    /\ calls' = calls + 1
    /\ \E guild_id \in Guilds, role_id \in RoleIds :
         settingsCalls' = settingsCalls \cup
            StartSet("set_active_role", guild_id, "active_role_id", role_id)
    /\ lastCommand' = NoCommand
    /\ UNCHANGED <<baseVars, roleVars, claudeVars, guild_settings>>

\* set_welcome_message lines 215-217, set_active_role_id lines 275-277:
\* the SELECT of the guild's settings row.
settings_read ==
    /\ \E c \in settingsCalls :
         /\ c.pc = "read"
         /\ settingsCalls' = (settingsCalls \ {c}) \cup
               {[c EXCEPT !.pc = "write",
                          !.existing_record =
                              SettingsRows(guild_settings, c.guild_id) # {}]}
    /\ lastCommand' = NoCommand
    /\ UNCHANGED <<baseVars, roleVars, claudeVars, calls, guild_settings>>

\* set_welcome_message lines 219-232, set_active_role_id lines 279-292,
\* and the command's reply: the UPDATE, or the INSERT, which raises when
\* the guild's row has been inserted since the SELECT; the command's
\* except Exception clause then replies with an error.
settings_write ==
    /\ \E c \in settingsCalls :
         /\ c.pc = "write"
         /\ settingsCalls' = settingsCalls \ {c}
         /\ LET refused == ~c.existing_record
                              /\ SettingsRows(guild_settings, c.guild_id) # {}
            IN  /\ guild_settings' =
                      IF c.existing_record
                      THEN settings_update(guild_settings, c.guild_id, c.column, c.value)
                      ELSE IF refused THEN guild_settings
                      ELSE settings_insert(guild_settings, c.guild_id, c.column, c.value)
                /\ lastCommand' = [cmd |-> c.cmd, guild_id |-> c.guild_id,
                                   column |-> c.column, value |-> c.value,
                                   reply |-> IF refused THEN "An error occurred"
                                             ELSE "updated"]
    /\ UNCHANGED <<baseVars, roleVars, claudeVars, calls>>

(* ---------------------------- the activity role ----------------------- *)

\* A bot among the members of every guild.
BotUser == 9
\* guild.members, and member.bot.
GuildMembers(guild_id) ==
    {u \in Users : <<guild_id, u>> \in Authorships} \cup {BotUser}
IsBot(user_id) == user_id = BotUser

\* The id of the role guild.create_role makes in the guild.
CreatedRole(guild_id) == 40 + guild_id

\* How a platform role call ends.
RoleResults == {"ok", "Forbidden", "HTTPException"}

\* get_active_role_id (actions.py lines 257-261).
get_active_role_id(table, guild_id) ==
    IF SettingsRows(table, guild_id) = {} THEN NoRole
    ELSE (CHOOSE r \in SettingsRows(table, guild_id) : TRUE).active_role_id

\* set_active_role_id (actions.py lines 264-292), run without another
\* call in between.
set_active_role_id(table, guild_id, role_id) ==
    IF SettingsRows(table, guild_id) # {}
    THEN settings_update(table, guild_id, "active_role_id", role_id)
    ELSE settings_insert(table, guild_id, "active_role_id", role_id)

\* Slip: the role is only ever added.
role_call_never_removes(should_have_role, has_role) ==
    IF ~has_role THEN "add" ELSE "none"

\* _update_guild_active_roles lines 75-84: the call made for a member.
role_call(should_have_role, has_role) ==
    IF should_have_role /\ ~has_role THEN "add"
    ELSE IF ~should_have_role /\ has_role THEN "remove"
    ELSE "none"

\* _update_guild_active_roles lines 59-64 with get_or_create_active_role
\* (lines 7-34): update_active_roles reaches a guild, or /roles
\* check_active is invoked in it.  The role of the settings row is
\* used; when there is none the role is created and its id stored,
\* and a refusal of the platform ends the sweep.
sweep_start ==
    /\ calls < MaxCalls
    /\ calls' = calls + 1
    /\ sweep = NoSweep
    /\ \E guild_id \in Guilds, created_ok \in RoleResults :
         LET role_id == get_active_role_id(guild_settings, guild_id)
         IN  IF ~manageRoles /\ role_id = NoRole /\ created_ok # "Forbidden"
             THEN FALSE
             ELSE IF role_id # NoRole
             THEN /\ created_ok = "ok"
                  /\ sweep' = [pc |-> "read", guild_id |-> guild_id]
                  /\ UNCHANGED guild_settings
             ELSE IF created_ok = "ok"
             THEN /\ guild_settings' = set_active_role_id(guild_settings, guild_id,
                                                          CreatedRole(guild_id))
                  /\ sweep' = [pc |-> "read", guild_id |-> guild_id]
             ELSE UNCHANGED <<guild_settings, sweep>>
    /\ lastSweep' = NoSweep
    /\ lastCommand' = NoCommand
    /\ UNCHANGED <<baseVars, claudeVars, settingsCalls, memberRoles>>

\* Lines 66-68: get_active_users(guild.id, days=3) is read once.
sweep_read ==
    /\ sweep.pc = "read"
    /\ sweep' = [pc |-> "members", guild_id |-> sweep.guild_id,
                 active_user_ids_set |->
                    {u \in Users :
                       get_active_users(user_private_channels, sweep.guild_id,
                                        WindowDays, now)[u] > 0},
                 todo |-> GuildMembers(sweep.guild_id),
                 before |-> memberRoles,
                 made |-> {}, ok |-> TRUE]
    /\ lastCommand' = NoCommand
    /\ UNCHANGED <<baseVars, claudeVars, settingsVars, calls, memberRoles, lastSweep>>

\* Lines 71-88: the next member of guild.members.  A bot is skipped; for
\* another member the role is added or removed when the member's roles
\* and the list read disagree, and a refusal of the platform is logged.
\* After the last member the call returns.
sweep_member ==
    /\ sweep.pc = "members"
    /\ \E member \in sweep.todo, result \in RoleResults :
         LET held == <<sweep.guild_id, member>>
             has_role == held \in memberRoles
             op == IF IsBot(member) THEN "none"
                   ELSE role_call(member \in sweep.active_user_ids_set, has_role)
             after == [sweep EXCEPT
                         !.todo = @ \ {member},
                         !.made = IF op = "none" THEN @
                                  ELSE @ \cup {[user_id |-> member, op |-> op,
                                                has_role |-> has_role]},
                         !.ok = @ /\ result = "ok"]
         IN  /\ op = "none" => result = "ok"
             /\ (op # "none" /\ ~manageRoles) => result = "Forbidden"
             /\ memberRoles' =
                   IF result # "ok" \/ op = "none" THEN memberRoles
                   ELSE IF op = "add" THEN memberRoles \cup {held}
                   ELSE memberRoles \ {held}
             /\ IF after.todo = {}
                THEN /\ sweep' = NoSweep
                     /\ lastSweep' = [after EXCEPT !.pc = "returned"]
                ELSE /\ sweep' = after
                     /\ UNCHANGED lastSweep
    /\ lastCommand' = NoCommand
    /\ UNCHANGED <<baseVars, claudeVars, settingsVars, calls>>

\* Slip: the role is granted only to a member whose row has a timestamp.
join_grants_stamped_only(table, guild_id, user_id, result) ==
    /\ result = "ok"
    /\ \E r \in PairRows(table, guild_id, user_id) :
          r.last_journal_message # NoStamp

\* on_member_join lines 334-341: member.add_roles is called for every
\* member who got this far; result is how the platform call ends, and a
\* refusal is logged.
join_grants(table, guild_id, user_id, result) == result = "ok"

\* on_member_join lines 325-341, after the row is stored.  The welcome
\* message is sent when the guild has a template, and a failure of the
\* send ends the handler (lines 343-349).  The role is the one of the
\* settings row, or is created and its id stored; the platform may
\* refuse the creation, and then nothing is granted.
join_grant ==
    /\ \E h \in channelCalls, sent \in SendResults,
          created_ok \in RoleResults, result \in RoleResults :
         LET role_id == get_active_role_id(guild_settings, h.guild_id)
             template == IF SettingsRows(guild_settings, h.guild_id) = {}
                         THEN NoMessage
                         ELSE (CHOOSE r \in SettingsRows(guild_settings, h.guild_id) :
                                 TRUE).welcome_message
             role == IF sent # "ok" THEN NoRole
                     ELSE IF role_id # NoRole THEN role_id
                     ELSE IF created_ok = "ok" THEN CreatedRole(h.guild_id)
                     ELSE NoRole
             granted == /\ role # NoRole
                        /\ join_grants(user_private_channels, h.guild_id,
                                       h.user_id, result)
         IN  /\ h.pc = "grant"
             /\ template = NoMessage => sent = "ok"
             /\ (sent # "ok" \/ role_id # NoRole) => created_ok = "ok"
             /\ role = NoRole => result = "ok"
             /\ ~manageRoles =>
                   /\ (sent = "ok" /\ role_id = NoRole) => created_ok = "Forbidden"
                   /\ role # NoRole => result = "Forbidden"
             /\ guild_settings' =
                   IF role # NoRole /\ role_id = NoRole
                   THEN set_active_role_id(guild_settings, h.guild_id, role)
                   ELSE guild_settings
             /\ memberRoles' = IF granted
                               THEN memberRoles \cup {<<h.guild_id, h.user_id>>}
                               ELSE memberRoles
             /\ lastCommand' = [cmd |-> "join", guild_id |-> h.guild_id,
                                user_id |-> h.user_id, channel_id |-> h.channel_id,
                                sent |-> sent, role |-> role, result |-> result,
                                granted |-> granted]
             /\ channelCalls' = channelCalls \ {h}
    /\ UNCHANGED <<now, schedulerVars, liveGuilds, liveChannels, message_logs,
                   user_xp, inflight, clockSteps, xpTrace, serial, received,
                   lastStats, journalVars, fnVars, created, calls, escaped,
                   settingsCalls, claudeVars, sweep, lastSweep, startVars>>

(* -------------------------------- /claude ----------------------------- *)

\* Lengths of the formatted answers the provider's reply makes.
MaxFormatted == 8000
\* claude.py line 96: what is sent as one message; line 100: the stride
\* and the length of the slices.
MessageLimit == 4000
ChunkSize == 3990

\* The object Anthropic(api_key=...) makes.
Client == [kind |-> "Anthropic"]

\* Slip: the absence of the key is remembered.
get_client_caches_absence(cached, api_key) ==
    IF cached = None
    THEN IF api_key = NoKey
         THEN [client |-> None, cached |-> [kind |-> "absent"]]
         ELSE [client |-> Client, cached |-> Client]
    ELSE IF cached = Client THEN [client |-> Client, cached |-> cached]
    ELSE [client |-> None, cached |-> cached]

\* get_client (lines 15-23): what is returned and what _client then holds.
get_client(cached, api_key) ==
    IF cached = None
    THEN IF api_key = NoKey
         THEN [client |-> None, cached |-> cached]
         ELSE [client |-> Client, cached |-> Client]
    ELSE [client |-> cached, cached |-> cached]

\* Slip: the slices are taken at a stride of the message limit.
chunks_at_message_limit(length) ==
    [k \in 1..((length + MessageLimit - 1) \div MessageLimit) |->
        [start |-> (k - 1) * MessageLimit,
         stop |-> IF (k - 1) * MessageLimit + ChunkSize < length
                  THEN (k - 1) * MessageLimit + ChunkSize ELSE length]]

\* Line 100: formatted[i:i+3990] for i in range(0, len(formatted), 3990),
\* each slice as the positions [start, stop) it takes of formatted.
chunks(length) ==
    [k \in 1..((length + ChunkSize - 1) \div ChunkSize) |->
        [start |-> (k - 1) * ChunkSize,
         stop |-> IF (k - 1) * ChunkSize + ChunkSize < length
                  THEN (k - 1) * ChunkSize + ChunkSize ELSE length]]

\* Lines 96-105: the messages sent for a formatted answer of the given
\* length, the first with ctx.followup.send, the others with
\* ctx.channel.send.
sends(length) ==
    IF length <= MessageLimit
    THEN <<[via |-> "followup", start |-> 0, stop |-> length]>>
    ELSE [k \in 1..Len(chunks(length)) |->
            [via |-> IF k = 1 THEN "followup" ELSE "channel",
             start |-> chunks(length)[k].start, stop |-> chunks(length)[k].stop]]

\* Lines 96-105 on a formatted answer of a given length.
sends_call ==
    /\ fnResult = NotCalled
    /\ fnResult' = [sent |-> sends(fnCall.length)]
    /\ UNCHANGED <<now, remVars, message_logs, user_xp, inflight, clockSteps,
                   xpTrace, serial, received, lastStats, journalVars, fnCall, channelVars, extVars>>

\* The lengths of the answers /claude formats: within the limit, at it,
\* just over it, and over two slices.
AnswerLengths == {1, MessageLimit, MessageLimit + 1, 2 * ChunkSize + 1}

\* The option context_messages: its least, default and greatest value.
ContextLimits == {1, 50, 100}

\* The environment variable is set or unset.
environ ==
    /\ \E key \in {NoKey, "key"} :
         /\ key # apiKey
         /\ apiKey' = key
    /\ lastCommand' = NoCommand
    /\ UNCHANGED <<baseVars, roleVars, settingsVars, calls, _client, unconfigured>>

\* /claude (lines 33-112).  Without a client the command replies and
\* returns; with one it defers, reads the channel history, calls the
\* provider and sends the formatted answer; an exception of the provider
\* call is caught at line 107 and reported with one followup message.
claude ==
    /\ calls < MaxCalls
    /\ calls' = calls + 1
    /\ LET got == get_client(_client, apiKey)
       IN  /\ _client' = got.cached
           /\ IF got.client = None
              THEN /\ unconfigured' = TRUE
                   /\ lastCommand' =
                         [cmd |-> "claude", reply |-> "Claude AI is not configured",
                          history_fetches |-> 0, limit |-> 0,
                          api_calls |-> 0, raised |-> "",
                          caught |-> "", length |-> 0, sent |-> <<>>]
              ELSE /\ UNCHANGED unconfigured
                   /\ \E length \in AnswerLengths, failed \in BOOLEAN,
                         context_messages \in ContextLimits :
                        /\ failed => length = 1
                        /\ lastCommand' =
                             [cmd |-> "claude", reply |-> "",
                              history_fetches |-> 1, limit |-> context_messages,
                              api_calls |-> 1, raised |-> "",
                              caught |-> IF failed THEN "Exception" ELSE "",
                              length |-> IF failed THEN 0 ELSE length,
                              sent |-> IF failed
                                       THEN <<[via |-> "followup",
                                               error |-> "Error calling Claude API"]>>
                                       ELSE sends(length)]
    /\ UNCHANGED <<baseVars, roleVars, settingsVars, apiKey>>

(* --------------------------- specifications --------------------------- *)

\* The guilds and channels the reminder scheduler resolves.
InitPlatform ==
    /\ liveGuilds = {GuildOf(c) : c \in Channels}
    /\ liveChannels = Channels

InitQuiet ==
    /\ now = 0
    /\ reminders = <<>>
    /\ botReady = FALSE
    /\ loopState = "before_loop"
    /\ dueList = <<>>
    /\ channelCalls = {}
    /\ created = 0
    /\ calls = 0
    /\ lastCommand = NoCommand
    /\ settingsCalls = {}
    /\ apiKey = NoKey
    /\ sweep = NoSweep
    /\ lastSweep = NoSweep
    /\ _client = None
    /\ unconfigured = FALSE
    /\ escaped = {}
    /\ everTicked = FALSE
    /\ outcome = [i \in Ids |-> "none"]
    /\ retried = FALSE
    /\ delivered = [i \in Ids |-> 0]
    /\ earlyTries = {}
    /\ staleTries = {}
    /\ cycleDue = {}
    /\ cycleTried = {}
    /\ inflight = {}
    /\ clockSteps = 0
    /\ lastStats = NoStats
    /\ lastJournal = NoJournal

\* Start-up has completed on an up-to-date database.
InitStarted ==
    /\ db_schema = {UserChannelsTable, JournalColumn, SettingsTable,
                    RoleColumn, MigrationsTable}
    /\ migrations = MIGRATIONS
    /\ boot = [Down EXCEPT !.pc = "done", !.i = Len(MIGRATIONS) + 1,
                           !.applied = Recorded, !.complete = TRUE]
    /\ boots = 1
    /\ runs = [i \in 1..Len(MIGRATIONS) |-> 0]
    /\ changes = [i \in 1..Len(MIGRATIONS) |-> 0]
    /\ crashed = FALSE

\* No message has been handled yet.
InitLedger ==
    /\ message_logs = <<>>
    /\ user_xp = [p \in Pairs |-> NoRow]
    /\ xpTrace = <<>>
    /\ received = 0
    /\ headStart = 0

InitBase ==
    /\ InitQuiet
    /\ InitStarted
    /\ InitLedger

\* The bot is about to be started on a database file an earlier version
\* left, or on none.
InitMigrations ==
    /\ InitQuiet
    /\ manageRoles = FALSE
    /\ InitLedger
    /\ InitPlatform
    /\ guild_settings = {}
    /\ memberRoles = {}
    /\ user_private_channels = {}
    /\ fnCall = NoCall
    /\ fnResult = NoResult
    /\ dbFaults = FALSE
    /\ serial = TRUE
    /\ db_schema \in OldSchemas
    /\ migrations = <<>>
    /\ boot = Down
    /\ boots = 0
    /\ runs = [i \in 1..Len(MIGRATIONS) |-> 0]
    /\ changes = [i \in 1..Len(MIGRATIONS) |-> 0]
    /\ crashed = FALSE

NextMigrations ==
    \/ start
    \/ init_database
    \/ run_migrations
    \/ skip_applied
    \/ run_pending
    \/ record_migration
    \/ interrupt

\* Start-ups of the bot, completed or cut short.
SpecMigrations == InitMigrations /\ [][NextMigrations]_vars

\* No guild has settings, no member the activity role.
InitCommon ==
    /\ InitBase
    /\ manageRoles = FALSE
    /\ guild_settings = {}
    /\ memberRoles = {}

\* A fresh database; no function is evaluated on its own.
InitEmpty ==
    /\ InitCommon
    /\ InitPlatform
    /\ user_private_channels = {}
    /\ fnCall = NoCall
    /\ fnResult = NoResult

Init == InitEmpty /\ dbFaults = FALSE /\ serial = FALSE

InitFaults == InitEmpty /\ dbFaults = TRUE /\ serial = FALSE

\* Handlers run one at a time.
InitSerial == InitEmpty /\ dbFaults = FALSE /\ serial = TRUE

\* Handlers run one at a time on a database with personal channels.
InitJournal ==
    /\ InitCommon
    /\ InitPlatform
    /\ user_private_channels = RegisteredChannels
    /\ fnCall = NoCall
    /\ fnResult = NoResult
    /\ dbFaults = FALSE
    /\ serial = TRUE

\* The arguments of one award computation.
InitAward ==
    /\ InitCommon
    /\ InitPlatform
    /\ user_private_channels = {}
    /\ fnCall \in [eligible : BOOLEAN, base_xp : BaseDraws,
                    message_length : 0..MaxLength]
    /\ fnResult = NoResult
    /\ dbFaults = FALSE
    /\ serial = TRUE

Next ==
    \/ on_ready
    \/ before_check_reminders
    \/ check_reminders
    \/ check_reminders_send
    \/ remindme
    \/ AdvanceClock
    \/ guild_remove
    \/ channel_delete

\* The scheduler with storage calls that return.
Spec == Init /\ [][Next]_vars

\* The scheduler with storage calls that may raise.
SpecFaults == InitFaults /\ [][Next]_vars

\* The scheduler under a fair polling timer: the tasks.loop timer keeps
\* firing, and the coroutine it runs keeps being resumed by the event loop.
SpecFair ==
    /\ Init /\ [][Next]_vars
    /\ WF_vars(before_check_reminders)
    /\ WF_vars(check_reminders)
    /\ WF_vars(check_reminders_send)

NextXP ==
    \/ on_message
    \/ award_xp_insert
    \/ award_xp_read
    \/ award_xp_update
    \/ award_xp_create
    \/ Elapse

\* The XP engine: messages arrive while earlier ones are still handled.
SpecXP == Init /\ [][NextXP]_vars

NextSerial ==
    \/ on_message
    \/ award_xp_insert
    \/ award_xp_read
    \/ award_xp_update
    \/ award_xp_create
    \/ stats
    \/ Elapse

\* The XP engine with every message handled before the next arrives.
SpecSerial == InitSerial /\ [][NextSerial]_vars

NextJournal ==
    \/ on_message
    \/ award_xp_insert
    \/ award_xp_read
    \/ award_xp_update
    \/ award_xp_create
    \/ on_message_journal
    \/ Elapse

\* Messages handled one at a time in a guild with personal channels.
SpecJournal == InitJournal /\ [][NextJournal]_vars

\* Member 1 of guild 1 has just posted a first short message and earned
\* the lowest base award; messages are handled one at a time.
InitCooldown ==
    /\ InitQuiet
    /\ manageRoles = FALSE
    /\ InitStarted
    /\ InitPlatform
    /\ message_logs = <<[guild_id |-> 1, user_id |-> 1, timestamp |-> 0,
                         xp_awarded |-> Round3(xp_to_award(TRUE, BaseMin, 50))]>>
    /\ xpTrace = <<[bot |-> FALSE, guild_id |-> 1, user_id |-> 1,
                    length |-> 50, noRecent |-> TRUE]>>
    /\ user_xp = [p \in Pairs |->
                    IF p = <<1, 1>> THEN Round3(xp_to_award(TRUE, BaseMin, 50))
                    ELSE NoRow]
    /\ received = 1
    /\ headStart = 1
    /\ guild_settings = {}
    /\ memberRoles = {}
    /\ user_private_channels = {}
    /\ fnCall = NoCall
    /\ fnResult = NoResult
    /\ dbFaults = FALSE
    /\ serial = TRUE

NextCooldown ==
    \/ on_message
    \/ award_xp_insert
    \/ award_xp_read
    \/ award_xp_update
    \/ award_xp_create
    \/ Pause

\* Messages that follow a first one at short intervals.
SpecCooldown == InitCooldown /\ [][NextCooldown]_vars

\* The award of one message, computed on its own.
SpecAward == InitAward /\ [][xp_to_award_call]_vars

\* A fresh database in guilds whose text channels exist.
InitChannels ==
    /\ InitCommon
    /\ liveGuilds = Guilds
    /\ liveChannels = TextChannels
    /\ user_private_channels = {}
    /\ fnCall = NoCall
    /\ fnResult = NoResult
    /\ dbFaults = FALSE
    /\ serial = FALSE

NextChannels ==
    \/ channel_add
    \/ channel_rename
    \/ channel_set
    \/ on_member_join
    \/ channel_heal
    \/ channel_create
    \/ channel_set_check
    \/ create_user_channel_read
    \/ create_user_channel_update
    \/ create_user_channel_insert
    \/ join_grant
    \/ personal_channel_delete

\* The personal channels: commands and joins interleave at their awaits.
SpecChannels == InitChannels /\ [][NextChannels]_vars

\* The interval string of one parse_time_interval call.
InitInterval ==
    /\ InitCommon
    /\ InitPlatform
    /\ user_private_channels = {}
    /\ fnCall \in [time_str : TimeStrings]
    /\ fnResult = NotCalled
    /\ dbFaults = FALSE
    /\ serial = TRUE

\* An interval string, parsed on its own.
SpecInterval == InitInterval /\ [][parse_time_interval_call]_vars

\* The link of one parse_message_link call.
InitLink ==
    /\ InitCommon
    /\ InitPlatform
    /\ user_private_channels = {}
    /\ fnCall \in [link : LinkStrings]
    /\ fnResult = NotCalled
    /\ dbFaults = FALSE
    /\ serial = TRUE

\* A message link, parsed on its own.
SpecLink == InitLink /\ [][parse_message_link_call]_vars

InitChunks ==
    /\ InitCommon
    /\ InitPlatform
    /\ user_private_channels = {}
    /\ fnCall \in [length : 1..MaxFormatted]
    /\ fnResult = NotCalled
    /\ dbFaults = FALSE
    /\ serial = TRUE

\* The sends of one formatted answer, computed on their own.
SpecChunks == InitChunks /\ [][sends_call]_vars

\* The members with a personal channel, and the table with each row
\* either never stamped or stamped at the start.
RolePairs == Authorships
StampedChannels ==
    {{[guild_id |-> p[1], user_id |-> p[2], channel_id |-> 10 * p[1] + p[2],
       last_journal_message |-> stamp[p]] : p \in RolePairs} :
       stamp \in [RolePairs -> {NoStamp, 0}]}

\* Guild 1 has an activity role that some of its members hold; guild 2
\* has none yet.
InitRoles ==
    /\ InitBase
    /\ manageRoles = TRUE
    /\ liveGuilds = Guilds
    /\ liveChannels = TextChannels
    /\ user_private_channels \in StampedChannels
    /\ guild_settings = {[guild_id |-> 1, welcome_message |-> NoMessage,
                          active_role_id |-> CreatedRole(1)]}
    /\ memberRoles \in SUBSET ({1} \X GuildMembers(1))
    /\ fnCall = NoCall
    /\ fnResult = NoResult
    /\ dbFaults = FALSE
    /\ serial = FALSE

NextRoles ==
    \/ sweep_start
    \/ sweep_read
    \/ sweep_member
    \/ Elapse

\* Sweeps of the activity role, one at a time, while time passes.
SpecRoles == InitRoles /\ [][NextRoles]_vars

\* Nobody has a personal channel or the activity role yet; guild 1 has a
\* welcome template and an activity role, guild 2 has no settings; the
\* bot may manage roles.
InitJoin ==
    /\ InitBase
    /\ manageRoles = TRUE
    /\ liveGuilds = Guilds
    /\ liveChannels = TextChannels
    /\ user_private_channels = {}
    /\ guild_settings = {[guild_id |-> 1, welcome_message |-> "hi {name}",
                          active_role_id |-> CreatedRole(1)]}
    /\ memberRoles = {}
    /\ fnCall = NoCall
    /\ fnResult = NoResult
    /\ dbFaults = FALSE
    /\ serial = FALSE

NextJoin ==
    \/ on_member_join
    \/ channel_create
    \/ create_user_channel_read
    \/ create_user_channel_update
    \/ create_user_channel_insert
    \/ join_grant
    \/ sweep_start
    \/ sweep_read
    \/ sweep_member

\* Members join while the activity role is swept.
SpecJoin == InitJoin /\ [][NextJoin]_vars

\* A database with personal channels, in guilds whose text channels exist.
InitCommands ==
    /\ InitCommon
    /\ liveGuilds = Guilds
    /\ liveChannels = TextChannels
    /\ user_private_channels = RegisteredChannels
    /\ fnCall = NoCall
    /\ fnResult = NoResult
    /\ dbFaults = FALSE
    /\ serial = FALSE

NextCommands ==
    \/ remindme_command
    \/ channel_add
    \/ channel_rename
    \/ channel_heal
    \/ channel_create
    \/ create_user_channel_read
    \/ create_user_channel_update
    \/ create_user_channel_insert
    \/ personal_channel_delete

NextSettings ==
    \/ welcome
    \/ set_active_role
    \/ settings_read
    \/ settings_write

\* The two settings commands, invoked while earlier ones are suspended.
SpecSettings == InitCommands /\ [][NextSettings]_vars

NextClaude ==
    \/ environ
    \/ claude

\* /claude invoked while the credential comes and goes.
SpecClaude == InitCommands /\ [][NextClaude]_vars

\* The commands that validate their options.
SpecCommands == InitCommands /\ [][NextCommands]_vars

NextRemindme ==
    \/ remindme_command
    \/ AdvanceClock

\* /remindme invoked again and again while the clock runs.
SpecRemindme == InitCommands /\ [][NextRemindme]_vars

(* ------------------------- reminder properties ------------------------ *)

Exists(i) == i \in 1..Len(reminders)
Completed(i) == Exists(i) /\ reminders[i].completed
Pending(i) == Exists(i) /\ ~reminders[i].completed
Due(i) == Exists(i) /\ reminders[i].remind_at <= now
Terminal == {"ok", "no_guild", "no_channel", "Forbidden"}
Transient == {"HTTPException", "Exception"}

\* C1: a due Pending reminder whose guild and channel resolve and whose send
\* succeeds is sent once and is Completed when that _send_reminder call
\* returns; a Completed reminder is in no cycle's list and is never handed
\* to _send_reminder again.
C1_SentOnceThenCompleted ==
    \A i \in Ids :
      /\ delivered[i] <= 1
      /\ outcome[i] = "ok" => Completed(i) /\ delivered[i] = 1
      /\ delivered[i] = 1 => outcome[i] = "ok" /\ Completed(i)
      /\ Completed(i) => i \notin Range(dueList) /\ i \notin staleTries

\* A reminder was delivered and a later cycle has fetched since.
C1_Witness ==
    \E i \in Ids :
      /\ outcome[i] = "ok" /\ delivered[i] = 1 /\ Completed(i)
      /\ i \notin cycleTried /\ loopState = "sleeping"

\* C2: a reminder whose last send failed with an HTTPException other than
\* Forbidden is still Pending; every fetch since has selected it, and every
\* cycle that has run to its end has handed what it selected to
\* _send_reminder, however often the reminder had failed already.
C2_TransientStaysPendingAndRetries ==
    \A i \in Ids :
      outcome[i] = "HTTPException" =>
        /\ Pending(i)
        /\ i \in cycleDue
        /\ i \in cycleTried \/ i \in Range(dueList)

\* A reminder failed transiently in two consecutive cycles.
C2_Witness ==
    \E i \in Ids :
      /\ outcome[i] = "HTTPException" /\ retried /\ Len(reminders) = 1
      /\ i \in cycleTried /\ loopState = "sleeping"

\* C3: when a poll cycle has ended, _send_reminder has been called for
\* every reminder its get_due_reminders call returned.
C3_EveryDueReminderAttempted ==
    loopState = "sleeping" => cycleDue \subseteq cycleTried

\* C4: a reminder whose guild or channel did not resolve at delivery is
\* Completed, nothing was sent for it, and it is never selected or retried.
C4_UnresolvedTargetCompletes ==
    \A i \in Ids :
      outcome[i] \in {"no_guild", "no_channel"} =>
        /\ Completed(i)
        /\ delivered[i] = 0
        /\ i \notin staleTries
        /\ i \notin Range(dueList)

\* A reminder was given up on for a missing target; a later cycle fetched.
C4_Witness ==
    \E i \in Ids :
      /\ outcome[i] \in {"no_guild", "no_channel"} /\ Completed(i)
      /\ i \notin cycleTried /\ loopState = "sleeping"

\* C5: a reminder whose send was unconfigured with Forbidden is Completed and is
\* in no later cycle's list.
C5_ForbiddenCompletes ==
    \A i \in Ids :
      outcome[i] = "Forbidden" =>
        /\ Completed(i)
        /\ i \notin Range(dueList)
        /\ i \notin staleTries
        /\ (loopState = "sleeping" /\ i \in cycleTried => i \in cycleDue)

\* A reminder was unconfigured with Forbidden; a later cycle fetched.
C5_Witness ==
    \E i \in Ids :
      /\ outcome[i] = "Forbidden" /\ Completed(i)
      /\ i \notin cycleTried /\ loopState = "sleeping"

\* One step of the reminders table: rows are only appended, and an
\* existing row changes only from Pending to Completed.
ReminderStep ==
    /\ Len(reminders') >= Len(reminders)
    /\ \A i \in 1..Len(reminders) :
         \/ reminders'[i] = reminders[i]
         \/ /\ ~reminders[i].completed
            /\ reminders'[i] = [reminders[i] EXCEPT !.completed = TRUE]

\* C6: every reminder is Pending or Completed; no step sets a Completed
\* reminder back to Pending, changes another field, or deletes a row.
C6_PendingToCompletedOnly ==
    /\ [](\A i \in 1..Len(reminders) : reminders[i].completed \in BOOLEAN)
    /\ [][ReminderStep]_vars

\* Both states occur in one table.
C6_Witness ==
    \E i, j \in Ids : Completed(i) /\ Pending(j) /\ outcome[j] # "none"

\* C7: delivery is attempted only for reminders that are Pending and whose
\* fire-at is not after the clock; nothing is sent before its fire-at.
C7_OnlyDuePendingAttempted ==
    /\ earlyTries = {}
    /\ staleTries = {}
    /\ \A i \in Range(dueList) : Pending(i) /\ Due(i)
    /\ \A i \in Ids : outcome[i] # "none" \/ delivered[i] > 0 => Due(i)

\* A cycle delivered one reminder while another was Pending and not due.
C7_Witness ==
    \E i, j \in Ids : delivered[i] = 1 /\ Pending(j) /\ ~Due(j) /\ outcome[j] = "none"
                       /\ i \in cycleTried

\* C8: before the readiness signal the loop has fetched nothing, sent
\* nothing and marked nothing; it is still in its before_loop hook.
C8_NoTickBeforeReady ==
    ~botReady =>
      /\ loopState = "before_loop"
      /\ ~everTicked
      /\ dueList = <<>>
      /\ \A i \in Ids : outcome[i] = "none" /\ delivered[i] = 0 /\ ~Completed(i)

\* A reminder is Pending and due while the platform is not ready.
C8_Witness ==
    ~botReady /\ \E i \in Ids : Pending(i) /\ Due(i)

\* A row becomes Completed only in a step whose delivery attempt for it
\* ended in success, an unresolvable target or permission denied.
CompletedOnlyByTerminal ==
    \A i \in Ids : Pending(i) /\ reminders'[i].completed => outcome'[i] \in Terminal

\* C9: with a fair polling timer, once the platform is ready a reminder
\* that is Pending and due is handed to _send_reminder again and again
\* until it is Completed; an attempt that ends in success, an unresolvable
\* target or permission denied leaves it Completed, and nothing else
\* completes it, so a reminder whose every attempt fails transiently stays
\* Pending forever.
C9_EventuallyCompletedUnlessTransient ==
    /\ \A i \in Ids :
         []<>(~botReady \/ ~Pending(i) \/ ~Due(i)
              \/ (i \in cycleTried /\ loopState = "sleeping"))
    /\ [](\A i \in Ids : outcome[i] \in Terminal => Completed(i))
    /\ [](\A i \in Ids : outcome[i] \in Transient => Pending(i))
    /\ [][CompletedOnlyByTerminal]_vars

\* A reminder failed transiently, was retried and then delivered.
C9_Witness ==
    retried /\ Len(reminders) = 1 /\ outcome[1] = "ok" /\ Completed(1)

(* ---------------------------- XP properties --------------------------- *)

\* The length bonus of the specification, in units of 0.001 XP.
LengthBonus(len) == IF len <= 50 THEN 0 ELSE (len - 50) * 100

\* C10: a ledger row written for a message that found no row of its
\* (guild, user) from the 60 seconds before it holds base + length bonus
\* rounded to 3 decimals, for a base with 6.0 <= base < 10.0: between
\* 6.000 and 10.000 above the length bonus.
C10_BaseAwardOutsideCooldown ==
    \A k \in 1..Len(message_logs) :
      xpTrace[k].noRecent =>
        /\ message_logs[k].xp_awarded - LengthBonus(xpTrace[k].length) >= 6000
        /\ message_logs[k].xp_awarded - LengthBonus(xpTrace[k].length) <= 10000

\* A pair's second message, more than 60 seconds after its first, earned
\* the highest base award and the bonus of 10 extra characters.
C10_Witness ==
    \E j, k \in 1..Len(message_logs) :
      /\ j < k
      /\ message_logs[j].guild_id = message_logs[k].guild_id
      /\ message_logs[j].user_id = message_logs[k].user_id
      /\ message_logs[k].timestamp - message_logs[j].timestamp > 60
      /\ xpTrace[k].noRecent
      /\ xpTrace[k].length = 60
      /\ message_logs[k].xp_awarded = 11000

\* C11: a ledger row written for a message that found a row of its
\* (guild, user) from the 60 seconds before it holds exactly the length
\* bonus: 0 for a content of 50 characters or fewer.
C11_OnlyBonusInsideCooldown ==
    \A k \in 1..Len(message_logs) :
      ~xpTrace[k].noRecent =>
        message_logs[k].xp_awarded = LengthBonus(xpTrace[k].length)

\* A 50-character message written exactly one minute after the pair's
\* previous row earned 0.
C11_Witness ==
    \E j, k \in 1..Len(message_logs) :
      /\ j < k
      /\ message_logs[j].guild_id = message_logs[k].guild_id
      /\ message_logs[j].user_id = message_logs[k].user_id
      /\ message_logs[k].timestamp - message_logs[j].timestamp = 60
      /\ ~xpTrace[k].noRecent
      /\ xpTrace[k].length = 50
      /\ message_logs[k].xp_awarded = 0

\* The ledger rows of one (guild, user).
RowsOf(logs, guild_id, user_id) ==
    SelectSeq(logs, LAMBDA r : r.guild_id = guild_id /\ r.user_id = user_id)

\* C12: the cooldown decision for (G, U) is the decision taken on the
\* rows of (G, U) alone: rows of another user of G, or of U in another
\* guild, never change it, and a message handled carries a base award
\* exactly when its own pair had no row from the last 60 seconds.
C12_CooldownPerPair ==
    /\ \A p \in Pairs :
          can_award_xp(message_logs, p[1], p[2], now)
            = can_award_xp(RowsOf(message_logs, p[1], p[2]), p[1], p[2], now)
    /\ \A h \in inflight :
          h.pc = "award" =>
            (h.xp_amount > LengthBonus(h.length) <=> h.noRecent)

\* Within a minute of a row of user 1 in guild 1, another user of that
\* guild, or user 1 in another guild, was given the base award.
C12_Witness ==
    \E j, k \in 1..Len(message_logs) :
      /\ j < k
      /\ message_logs[j].guild_id = 1 /\ message_logs[j].user_id = 1
      /\ \/ message_logs[k].guild_id = 1 /\ message_logs[k].user_id = 2
         \/ message_logs[k].guild_id = 2 /\ message_logs[k].user_id = 1
      /\ message_logs[k].timestamp - message_logs[j].timestamp < 60
      /\ message_logs[k].xp_awarded >= 6000 + LengthBonus(xpTrace[k].length)

(* ----------------- XP properties, one message at a time ---------------- *)

\* C13: the amount written for a message is its base award (none on
\* cooldown) plus 0.1 XP for each character beyond the 50th, whether or
\* not the message is on cooldown: nothing for a length of 50 or less,
\* 1.000 for length 60, 10.000 for length 150.
C13_LengthBonus ==
    fnResult # NoResult =>
      LET len == fnCall.message_length
          bonus == fnResult - (IF fnCall.eligible THEN Round3(fnCall.base_xp) ELSE 0)
      IN  /\ len <= 50 => bonus = 0
          /\ len > 50 => bonus = (len - 50) * 100
          /\ len = 60 => bonus = 1000
          /\ len = 150 => bonus = 10000

\* A message of 150 characters on cooldown was awarded 10.000.
C13_Witness ==
    /\ fnResult = 10000
    /\ ~fnCall.eligible
    /\ fnCall.message_length = 150

\* C14: every non-bot guild message on_message was called with has
\* appended exactly one ledger row once its award_xp has inserted, a
\* row of its own (guild, author), also when the award is 0; no row
\* stems from a bot's message or from a direct message.
C14_OneEntryPerMessage ==
    /\ received = Len(message_logs) + Cardinality({h \in inflight : h.pc = "award"})
    /\ \A k \in 1..Len(message_logs) :
          /\ ~xpTrace[k].bot
          /\ message_logs[k].guild_id # NoGuild
          /\ message_logs[k].guild_id = xpTrace[k].guild_id
          /\ message_logs[k].user_id = xpTrace[k].user_id

\* Two messages were handled to the end; the second earned 0 and has
\* its row.
C14_Witness ==
    /\ Idle
    /\ received = 2
    /\ Len(message_logs) = 2
    /\ message_logs[2].xp_awarded = 0

\* The amounts of the pair's ledger rows timestamped at or after cutoff,
\* in 0.001 XP.
WindowTotal(guild_id, user_id, cutoff) ==
    SumXp(message_logs, Len(message_logs), guild_id, user_id, cutoff)

\* C15: when award_xp returns, the snapshot of its (guild, user) is the
\* sum of the pair's ledger amounts of the trailing three days, the row
\* just appended included, for a first award as for a later one.
C15_SnapshotAfterAward ==
    [][\A h \in inflight :
         (h.pc \in {"award_update", "award_create"} /\ h \notin inflight') =>
           user_xp'[<<h.guild_id, h.user_id>>] =
             SumXp(message_logs', Len(message_logs'), h.guild_id, h.user_id,
                   now' - WindowSeconds)]_vars

\* A pair's second award was made when its first row was older than
\* three days: the snapshot holds the second amount alone.
C15_Witness ==
    /\ Idle
    /\ Len(message_logs) = 2
    /\ message_logs[1].guild_id = message_logs[2].guild_id
    /\ message_logs[1].user_id = message_logs[2].user_id
    /\ message_logs[1].xp_awarded > 0
    /\ message_logs[2].xp_awarded > 0
    /\ message_logs[2].timestamp - message_logs[1].timestamp > WindowSeconds
    /\ user_xp[<<message_logs[2].guild_id, message_logs[2].user_id>>]
         = message_logs[2].xp_awarded

StatsFromLedger ==
    lastStats # NoStats =>
      /\ lastStats.xp_3d
           = WindowTotal(lastStats.guild_id, lastStats.user_id, now - 3 * 86400)
      /\ lastStats.xp_24h
           = WindowTotal(lastStats.guild_id, lastStats.user_id, now - 86400)

StatsReadOnly ==
    (lastStats' # NoStats /\ lastStats' # lastStats) =>
      UNCHANGED <<message_logs, user_xp>>

\* C16: get_user_xp returns the sum of the pair's ledger amounts of the
\* trailing `days` days, whatever the snapshot holds, and the call
\* leaves ledger and snapshot as they were.
C16_QueryFromLedger == []StatsFromLedger /\ [][StatsReadOnly]_vars

\* Statistics read for a pair whose three-day total, one-day total and
\* snapshot are three different amounts.
C16_Witness ==
    /\ lastStats # NoStats
    /\ lastStats.xp_3d # lastStats.xp_24h
    /\ user_xp[<<lastStats.guild_id, lastStats.user_id>>] # NoRow
    /\ user_xp[<<lastStats.guild_id, lastStats.user_id>>] # lastStats.xp_3d
    /\ user_xp[<<lastStats.guild_id, lastStats.user_id>>] # lastStats.xp_24h

(* --------------------- personal channel properties -------------------- *)

\* The table after the row of (guild, user) registered for channel c has
\* been stamped with t.
Stamped(table, guild_id, user_id, c, t) ==
    {IF r.guild_id = guild_id /\ r.user_id = user_id /\ r.channel_id = c
     THEN [r EXCEPT !.last_journal_message = t] ELSE r : r \in table}

\* C17: a message stamps the sender's personal channel row with the
\* current time exactly when it was posted in that channel, whatever
\* its award; any other message leaves every row as it was.
C17_JournalStamp ==
    [][/\ lastJournal' # lastJournal =>
            user_private_channels' =
              Stamped(user_private_channels, lastJournal'.guild_id,
                      lastJournal'.user_id, lastJournal'.channel_id, now)
       /\ lastJournal' = lastJournal =>
            user_private_channels' = user_private_channels]_vars

\* A message that earned 0 was posted in its sender's personal channel
\* and stamped the row.
C17_Witness ==
    /\ lastJournal.xp_amount = 0
    /\ now > 0
    /\ \E r \in user_private_channels :
         /\ r.guild_id = lastJournal.guild_id
         /\ r.user_id = lastJournal.user_id
         /\ r.channel_id = lastJournal.channel_id
         /\ r.last_journal_message = now

\* C18: get_active_users(guild, days) lists a user id, once, exactly
\* when the guild has a personal channel row of that user whose
\* timestamp is set and at most `days` days old.
C18_ActiveUsersExact ==
    \A g \in Guilds, days \in QueryDays :
      LET listed == get_active_users(user_private_channels, g, days, now)
      IN  \A u \in Users :
            /\ listed[u] <= 1
            /\ listed[u] = 1 <=>
                  \E r \in user_private_channels :
                    /\ r.guild_id = g /\ r.user_id = u
                    /\ r.last_journal_message # NoStamp
                    /\ now - r.last_journal_message <= days * 86400

\* User 2 of guild 1 is listed for three days while user 1, whose last
\* journal message is older, is not, and guild 2 lists nobody.
C18_Witness ==
    /\ get_active_users(user_private_channels, 1, 3, now)[2] = 1
    /\ get_active_users(user_private_channels, 1, 3, now)[1] = 0
    /\ get_active_users(user_private_channels, 2, 3, now) = [u \in Users |-> 0]
    /\ \E r \in user_private_channels :
         r.guild_id = 1 /\ r.user_id = 1 /\ r.last_journal_message # NoStamp


(* --------------------- personal channel properties -------------------- *)

\* C19: in every reachable state the table holds at most one personal
\* channel row per (guild, user), however channel add, channel set,
\* on_member_join and the self-heal deletions interleave.
C19_OneRowPerPair ==
    \A guild_id \in Guilds, user_id \in Users :
        Cardinality(PairRows(user_private_channels, guild_id, user_id)) <= 1

\* Two handlers of one pair raced: one is about to insert although the
\* other has stored a row of the pair since the first looked.
C19_Witness ==
    \E h \in channelCalls :
        /\ h.pc = "store_insert"
        /\ PairRows(user_private_channels, h.guild_id, h.user_id) # {}

Commands == {"add", "rename", "set", "join"}

\* Whatever the handler, a stored id that resolves to no live channel
\* sends it to the deletion of the row.
StaleIsHealed ==
    \A p \in Members, cmd \in Commands :
        LET channel_id == get_user_channel(user_private_channels, p[1], p[2])
        IN  channel_id # NoChannel /\ channel_id \notin liveChannels
                => \E h \in StartCall(cmd, p[1], p[2], NoChannel) : h.pc = "heal"

\* The deletion leaves no row of the pair, and the handler goes on where
\* it starts for a user without row: rename ends, the others provision.
HealedIsAbsent ==
    \A h \in channelCalls \ channelCalls' :
        h.pc = "heal" =>
            /\ PairRows(user_private_channels', h.guild_id, h.user_id) = {}
            /\ channelCalls' \ channelCalls =
                 IF h.cmd = "rename" THEN {} ELSE {[h EXCEPT !.pc = Provision(h.cmd)]}

\* C20: when channel add, rename, set or on_member_join finds that the
\* stored personal channel id resolves to no live channel, it deletes the
\* row and treats the user as having no personal channel.
C20_SelfHeal == []StaleIsHealed /\ [][HealedIsAbsent]_vars

\* A handler that found a stale id has deleted the row and provisions.
C20_Witness ==
    \E h \in channelCalls :
        /\ h.pc \in {"create", "check_assigned"}
        /\ h.existing_channel_id # NoChannel
        /\ PairRows(user_private_channels, h.guild_id, h.user_id) = {}

(* ----------------------- ledger and validation ------------------------ *)

\* Every row the ledger held is still there, unchanged and in its place.
LedgerAppendOnly ==
    /\ Len(message_logs') >= Len(message_logs)
    /\ \A k \in 1..Len(message_logs) : message_logs'[k] = message_logs[k]

\* C22: the XP ledger is append-only with non-negative amounts: no step
\* updates or deletes a row it holds, and every amount written is >= 0.
C22_LedgerAppendOnly ==
    [][/\ LedgerAppendOnly
       /\ \A k \in 1..Len(message_logs') : message_logs'[k].xp_awarded >= 0]_vars

\* A second row of a pair was appended, with the smallest amount, 0.
C22_Witness ==
    /\ Len(message_logs) = 2
    /\ message_logs[1].guild_id = message_logs[2].guild_id
    /\ message_logs[1].user_id = message_logs[2].user_id
    /\ message_logs[1].xp_awarded > 0
    /\ message_logs[2].xp_awarded = 0

(* --------------------------- parser properties ------------------------ *)

\* The positions of the unit letters that end an <integer><unit> token.
TokenEnds(s) == {j \in 2..Len(s) : s[j] \in UnitChars /\ s[j - 1] \in DigitChars}

\* Where the integer of the token ending at j begins.
TokenStart(s, j) ==
    CHOOSE i \in 1..(j - 1) :
        /\ \A k \in i..(j - 1) : s[k] \in DigitChars
        /\ i = 1 \/ s[i - 1] \notin DigitChars

\* The sum of the tokens ending at the positions of ends.
RECURSIVE TokenSum(_, _)
TokenSum(s, ends) ==
    IF ends = {} THEN Duration(0, 0)
    ELSE LET j == CHOOSE e \in ends : TRUE
         IN  Plus(TokenSum(s, ends \ {j}),
                  DurationOf(IntOfDigits(SubSeq(s, TokenStart(s, j), j - 1)), s[j]))

\* What the interval string stands for: the sum of its tokens, units in
\* either case, or invalid without token or with a zero total.
IntervalOf(time_str) ==
    LET s == Lower(time_str)
    IN  IF TokenEnds(s) = {} \/ TokenSum(s, TokenEnds(s)) = Duration(0, 0) THEN None
        ELSE TokenSum(s, TokenEnds(s))

\* C23: parse_time_interval returns the sum of all <integer><unit> tokens
\* of its input (units s, m, h, d, w in either case, repeated units
\* adding up) and None when there is no token or the total is zero:
\* "1h30m" is 5400 s, "2d" 172800 s, "1h1h" 7200 s, "abc" and "0s" None.
C23_IntervalIsTokenSum ==
    /\ fnResult # NotCalled => fnResult = IntervalOf(fnCall.time_str)
    /\ parse_time_interval(<<"1", "h", "3", "0", "m">>) = Duration(0, 5400)
    /\ parse_time_interval(<<"2", "d">>) = Duration(2, 0)
    /\ parse_time_interval(<<"1", "h", "1", "h">>) = Duration(0, 7200)
    /\ parse_time_interval(<<"a", "b", "c">>) = None
    /\ parse_time_interval(<<"0", "s">>) = None

\* What the function does on every string: the token sum where a
\* timedelta can hold it, OverflowError where it cannot.
IntervalUnlessOverflow ==
    fnResult # NotCalled =>
        LET s == Lower(fnCall.time_str)
        IN  fnResult = IF TokenSum(s, TokenEnds(s)).days > MaxTimedeltaDays
                       THEN OverflowError ELSE IntervalOf(fnCall.time_str)

\* The positions of the slashes of a string.
Slashes(s) == {i \in 1..Len(s) : s[i] = "/"}

\* The k-th segment from the end (1 is the last) of a string with at
\* least k - 1 slashes: what lies between the k-th slash from the end,
\* or the start of the string, and the next slash, or its end.
SegmentFromEnd(s, k) ==
    LET after(i) == Cardinality({j \in Slashes(s) : j > i})
        first == IF \E i \in Slashes(s) : after(i) = k - 1
                 THEN (CHOOSE i \in Slashes(s) : after(i) = k - 1) + 1 ELSE 1
        last == IF k = 1 THEN Len(s)
                ELSE (CHOOSE i \in Slashes(s) : after(i) = k - 2) - 1
    IN  SubSeq(s, first, last)

\* What the link stands for: with fewer than three segments, or a last,
\* second-last or third-last segment that is no integer, nothing.
LinkOf(link) ==
    LET s == strip(link)
    IN  IF Cardinality(Slashes(s)) + 1 < 3 THEN None
        ELSE IF \E k \in 1..3 : ~IsInt(SegmentFromEnd(s, k)) THEN None
        ELSE Link(int(SegmentFromEnd(s, 3)), int(SegmentFromEnd(s, 2)),
                  int(SegmentFromEnd(s, 1)))

\* C24: parse_message_link splits its input on "/" and returns the last
\* three segments as (guild id, channel id, message id) when all three
\* parse as integers, and None with fewer than three segments or a
\* non-integer among the last three: ".../111/222/333" gives
\* (111, 222, 333), "222/333" is invalid.
C24_LinkIsLastThreeSegments ==
    /\ fnResult # NotCalled => fnResult = LinkOf(fnCall.link)
    /\ fnResult # NotCalled /\ fnCall.link \in LinkExamples
         => fnResult = IF Len(fnCall.link) > 7 THEN Link(111, 222, 333) ELSE None

\* A link with a segment before the three ids was parsed to its ids.
C24_Witness ==
    /\ fnResult # NotCalled
    /\ fnResult # None
    /\ Cardinality(Slashes(strip(fnCall.link))) > 2

\* The replies that report an option the command could not accept.
ValidationReplies ==
    {"Invalid channel name", "Invalid time format", "Invalid message link"}

\* This step is a command that ended with such a reply.
RejectedStep ==
    /\ calls' # calls
    /\ lastCommand'.cmd # "none"
    /\ lastCommand'.reply \in ValidationReplies

\* C21: a command rejected for an interval, a link or a channel name it
\* cannot accept has replied to its user, and the step leaves the
\* reminders, the personal channels, the settings, the guilds' channels
\* and the handlers in flight as they were.
C21_RejectionChangesNothing ==
    [][RejectedStep =>
          /\ lastCommand'.reply # ""
          /\ UNCHANGED <<reminders, user_private_channels, guild_settings,
                         liveGuilds, liveChannels, created, channelCalls>>]_vars

\* A link was rejected while a reminder and a personal channel are stored.
C21_Witness ==
    /\ lastCommand.cmd = "remindme"
    /\ lastCommand.reply = "Invalid message link"
    /\ Len(reminders) > 0
    /\ user_private_channels # {}

(* ------------------------- /remindme properties ----------------------- *)

\* The replies with which /remindme turns an invocation down.
RemindmeRefusals ==
    {"only in a server", "Invalid time format", "Invalid message link",
     "different server"}

\* This step is a /remindme whose options passed every check.
ValidatedStep ==
    /\ calls' # calls
    /\ lastCommand'.cmd = "remindme"
    /\ lastCommand'.delta # None
    /\ lastCommand'.reply \notin RemindmeRefusals

\* The row a validated invocation is to store.
ExpectedReminder ==
    [guild_id |-> lastCommand'.guild_id, user_id |-> lastCommand'.user_id,
     channel_id |-> lastCommand'.channel_id,
     remind_at |-> now + lastCommand'.delta.days * SecondsPerDay
                       + lastCommand'.delta.seconds,
     completed |-> FALSE]

\* The step appends exactly that row, due strictly after the present.
StoresExpectedReminder ==
    /\ lastCommand'.delta.days <= MaxDatetimeDays
    /\ reminders' = Append(reminders, ExpectedReminder)
    /\ ExpectedReminder.remind_at > now

\* C30: every /remindme that passes validation stores exactly one
\* Pending reminder for the invoking guild, user and channel, due at
\* now + the parsed interval, which is strictly after its creation.
C30_ValidatedIsStored ==
    [][ValidatedStep => StoresExpectedReminder]_vars

\* What holds of /remindme: every invocation that answers "Got it" has
\* stored exactly that reminder, and every other leaves the table alone.
StoredWhenAcknowledged ==
    [][(calls' # calls /\ lastCommand'.cmd = "remindme") =>
          IF lastCommand'.reply = "Got it"
          THEN StoresExpectedReminder
          ELSE reminders' = reminders]_vars

(* --------------------------- fault isolation -------------------------- *)

\* C25: an exception raised inside an invocation of a top-level handler
\* is caught inside that handler: none propagates out of one.
C25_NoExceptionEscapes == escaped = {}

(* --------------------------- settings properties ---------------------- *)

\* The value of a column of the guild's row, NULL-like when it has none.
Setting(table, guild_id, column) ==
    IF SettingsRows(table, guild_id) = {}
    THEN (IF column = "active_role_id" THEN {NoRole} ELSE {NoMessage})
    ELSE {r[column] : r \in SettingsRows(table, guild_id)}

\* The set operation that completes in this step, if one does.
Completes(cmd, guild_id) ==
    /\ settingsCalls' # settingsCalls
    /\ lastCommand'.cmd = cmd
    /\ lastCommand'.guild_id = guild_id

OneSettingsRowPerGuild ==
    \A guild_id \in Guilds :
       Cardinality(SettingsRows(guild_settings, guild_id)) <= 1

\* A guild's row appears only in a set operation for that guild, a
\* column changes only in the operation that sets it, for that guild, to
\* the value given, and no row disappears.
SettingsFrame ==
    \A guild_id \in Guilds :
       /\ SettingsRows(guild_settings, guild_id) # {}
             => SettingsRows(guild_settings', guild_id) # {}
       /\ (SettingsRows(guild_settings, guild_id) = {}
             /\ SettingsRows(guild_settings', guild_id) # {})
             => \/ Completes("welcome", guild_id)
                \/ Completes("set_active_role", guild_id)
       /\ Setting(guild_settings', guild_id, "welcome_message")
             # Setting(guild_settings, guild_id, "welcome_message")
             => /\ Completes("welcome", guild_id)
                /\ Setting(guild_settings', guild_id, "welcome_message")
                      = {lastCommand'.value}
       /\ Setting(guild_settings', guild_id, "active_role_id")
             # Setting(guild_settings, guild_id, "active_role_id")
             => /\ Completes("set_active_role", guild_id)
                /\ Setting(guild_settings', guild_id, "active_role_id")
                      = {lastCommand'.value}

\* C26: a guild has at most one settings row, which the first set
\* operation for the guild creates; set_welcome_message changes only the
\* welcome template and set_active_role_id only the active-role id, of
\* that guild's row alone.
C26_SettingsFrame ==
    [][OneSettingsRowPerGuild' /\ SettingsFrame]_vars

\* A welcome template was set in a row that already held a role id, while
\* the other guild has a row of its own.
C26_Witness ==
    /\ lastCommand.cmd = "welcome"
    /\ lastCommand.reply = "updated"
    /\ \E r \in guild_settings :
          /\ r.guild_id = lastCommand.guild_id
          /\ r.welcome_message = lastCommand.value
          /\ r.active_role_id # NoRole
    /\ \E r \in guild_settings : r.guild_id # lastCommand.guild_id

(* --------------------------- /claude properties ----------------------- *)

\* This step is an invocation of /claude.
ClaudeStep == calls' # calls /\ lastCommand'.cmd = "claude"

\* C27: invoked with no credential in the environment (and no client
\* made earlier), /claude tells the user it is not configured, reads no
\* history, calls no provider and raises nothing, and keeps no record of
\* the absence: invoked with the credential set, it obtains a client.
C27_AbsenceNotCached ==
    [][ClaudeStep =>
          /\ (apiKey = NoKey /\ _client = None) =>
                /\ lastCommand'.reply = "Claude AI is not configured"
                /\ lastCommand'.history_fetches = 0
                /\ lastCommand'.api_calls = 0
                /\ lastCommand'.sent = <<>>
                /\ lastCommand'.raised = ""
                /\ _client' = None
          /\ apiKey # NoKey =>
                /\ lastCommand'.reply = ""
                /\ lastCommand'.api_calls = 1
                /\ _client' = Client]_vars

\* An invocation reached the provider after an earlier one was refused.
C27_Witness ==
    /\ unconfigured
    /\ lastCommand.cmd = "claude"
    /\ lastCommand.api_calls = 1

\* The messages follow one another through the answer: the first starts
\* at its first character, each next one where the one before stopped,
\* and the last stops at the end.
Consecutive(sent, length) ==
    /\ sent[1].start = 0
    /\ \A k \in 1..(Len(sent) - 1) : sent[k + 1].start = sent[k].stop
    /\ sent[Len(sent)].stop = length

\* C28: a formatted answer of at most 4000 characters is sent as one
\* message; a longer one as consecutive chunks in order, none empty and
\* none longer than 3990 characters, that together are the answer.
C28_ChunksAreTheAnswer ==
    fnResult # NotCalled =>
       LET sent == fnResult.sent
           length == fnCall.length
       IN  /\ Len(sent) >= 1
           /\ Consecutive(sent, length)
           /\ sent[1].via = "followup"
           /\ \A k \in 2..Len(sent) : sent[k].via = "channel"
           /\ IF length <= 4000
              THEN Len(sent) = 1
              ELSE /\ Len(sent) >= 2
                   /\ \A k \in 1..Len(sent) :
                         /\ sent[k].stop - sent[k].start >= 1
                         /\ sent[k].stop - sent[k].start <= 3990

\* An answer was sent in three chunks.
C28_Witness ==
    /\ fnResult # NotCalled
    /\ Len(fnResult.sent) = 3

(* ------------------------ activity role properties -------------------- *)

\* The sweep that has just returned made every role call with success.
SweepSucceeded == lastSweep.pc = "returned" /\ lastSweep.ok

\* C29: when _update_guild_active_roles has returned and every role call
\* succeeded, a member who is not a bot holds the activity role exactly
\* if the list of active users read at the start names them; a call was
\* made only for a member in the wrong state, and no bot was touched.
C29_SweepReconciles ==
    SweepSucceeded =>
       LET guild_id == lastSweep.guild_id
           listed == lastSweep.active_user_ids_set
       IN  /\ \A u \in GuildMembers(guild_id) :
                IF IsBot(u)
                THEN (<<guild_id, u>> \in memberRoles)
                        <=> (<<guild_id, u>> \in lastSweep.before)
                ELSE (<<guild_id, u>> \in memberRoles) <=> (u \in listed)
           /\ \A c \in lastSweep.made :
                /\ ~IsBot(c.user_id)
                /\ c.op = "add" => ~c.has_role /\ c.user_id \in listed
                /\ c.op = "remove" => c.has_role /\ c.user_id \notin listed
           /\ \A u \in GuildMembers(guild_id) :
                (<<guild_id, u>> \in lastSweep.before <=> u \in listed)
                   => \A c \in lastSweep.made : c.user_id # u

\* A sweep added the role to one member and removed it from another,
\* beside a bot that holds it.
C29_Witness ==
    /\ SweepSucceeded
    /\ \E c \in lastSweep.made : c.op = "add"
    /\ \E c \in lastSweep.made : c.op = "remove"
    /\ <<lastSweep.guild_id, BotUser>> \in memberRoles

(* ----------------------- personal channel frame ----------------------- *)

\* The user has a personal channel that resolves.
HasLiveChannel(guild_id, user_id) ==
    \E r \in user_private_channels :
       /\ r.guild_id = guild_id /\ r.user_id = user_id
       /\ r.channel_id \in liveChannels

\* This step is an add, a set or a join that found the user's channel live.
ExistingChannelStep ==
    /\ calls' # calls
    /\ lastCommand'.cmd \in {"add", "set", "join"}
    /\ "existing_channel_id" \in DOMAIN lastCommand'

\* C31: add, set and on_member_join for a user whose recorded personal
\* channel resolves create no channel and leave the table as it was: the
\* handler ends at once, and none is started that would go on.
C31_LiveChannelIsKept ==
    [][/\ ExistingChannelStep =>
             UNCHANGED <<user_private_channels, liveChannels, created, channelCalls>>
       /\ calls' # calls =>
             \A h \in channelCalls' \ channelCalls :
                h.cmd \in {"add", "set", "join"}
                   => ~HasLiveChannel(h.guild_id, h.user_id)]_vars

\* A member who has a live personal channel joined again.
C31_Witness ==
    /\ lastCommand.cmd = "join"
    /\ "existing_channel_id" \in DOMAIN lastCommand
    /\ lastCommand.existing_channel_id \in liveChannels

\* C36: no channel id is recorded as the personal channel of two
\* different users of one guild, however add, set and on_member_join
\* are interleaved.
C36_NoSharedChannel ==
    \A r1, r2 \in user_private_channels :
       (r1.guild_id = r2.guild_id /\ r1.channel_id = r2.channel_id)
          => r1.user_id = r2.user_id

(* ----------------------- XP under interleaving ------------------------ *)

\* Ledger row k holds a base award beside its length bonus.
HasBase(k) == message_logs[k].xp_awarded > LengthBonus(xpTrace[k].length)

\* C32: however on_message invocations interleave, no two ledger rows of
\* one (guild, user) less than 60 seconds apart both hold a base award.
C32_OneBasePerMinute ==
    \A j, k \in 1..Len(message_logs) :
       (/\ j < k
        /\ message_logs[j].guild_id = message_logs[k].guild_id
        /\ message_logs[j].user_id = message_logs[k].user_id
        /\ message_logs[k].timestamp - message_logs[j].timestamp < 60)
          => ~(HasBase(j) /\ HasBase(k))

\* The award_xp invocation h ends in this step, and no other invocation
\* for its (guild, user) is left.
LastAwardEnds(h) ==
    /\ h.pc \in {"award_update", "award_create"}
    /\ h \notin inflight'
    /\ ~\E g \in inflight' : g.guild_id = h.guild_id /\ g.user_id = h.user_id

\* C33: however award_xp invocations for one (guild, user) interleave,
\* when the last of them ends the snapshot is the rounded sum of the
\* pair's ledger rows of the trailing three days, and none has failed.
C33_SnapshotAfterConcurrentAwards ==
    [][\A h \in inflight :
         LastAwardEnds(h) =>
           /\ user_xp'[<<h.guild_id, h.user_id>>] =
                 rolling_total(message_logs', h.guild_id, h.user_id,
                               now' - WindowSeconds)
           /\ escaped' = escaped]_vars

(* ------------------------ snapshot and ledger ------------------------- *)

\* The snapshot of a pair: nothing while it has no row.
Snapshot(p) == IF user_xp[p] = NoRow THEN 0 ELSE user_xp[p]

SnapshotCoversTotal ==
    \A p \in Pairs :
       Snapshot(p) >= get_user_xp(message_logs, p[1], p[2], WindowDays, now)

SnapshotCoversTotalBetweenAwards == Idle => SnapshotCoversTotal

\* The latest ledger row of row k's (guild, user) before row k; 0 if none.
PreviousMessage(k) ==
    LET earlier == {j \in 1..(k - 1) :
                      /\ message_logs[j].guild_id = message_logs[k].guild_id
                      /\ message_logs[j].user_id = message_logs[k].user_id}
    IN  IF earlier = {} THEN 0
        ELSE CHOOSE j \in earlier : \A i \in earlier : i <= j

\* The ledger rows of one (guild, user), in the order written.
MessagesOf(p) ==
    {k \in 1..Len(message_logs) :
       /\ message_logs[k].guild_id = p[1]
       /\ message_logs[k].user_id = p[2]}

\* C35: with messages handled in turn, every handled message of a member
\* wrote a ledger row, with or without a base award, and a row holds a
\* base award exactly if the previous row of its (guild, user), of any
\* kind, is more than 60 seconds older (or there is none); so a member
\* whose consecutive messages are always less than 60 seconds apart has
\* the base award on the first row only.
C35_EveryMessageRestartsCooldown ==
    /\ Idle => Len(message_logs) = received
    /\ \A k \in 1..Len(message_logs) :
         HasBase(k) <=>
           \/ PreviousMessage(k) = 0
           \/ message_logs[k].timestamp
                - message_logs[PreviousMessage(k)].timestamp > 60
    /\ \A p \in Pairs :
         (\A k \in MessagesOf(p) :
            PreviousMessage(k) # 0 =>
              message_logs[k].timestamp
                - message_logs[PreviousMessage(k)].timestamp < 60)
           => \A k \in MessagesOf(p) : HasBase(k) => PreviousMessage(k) = 0

\* Member 1 of guild 1 posted at 0, 40 and 80 seconds: the third message
\* earned no base award although the only base award is 80 seconds old.
C35_Witness ==
    /\ Len(message_logs) = 3
    /\ \A k \in 1..3 : /\ message_logs[k].guild_id = 1
                       /\ message_logs[k].user_id = 1
                       /\ message_logs[k].timestamp = 40 * (k - 1)
    /\ HasBase(1)
    /\ ~HasBase(2)
    /\ ~HasBase(3)

\* C38: run_migrations records the migrations in the order of the list,
\* each once; a migration function is not called while its name is in
\* the migrations table; a run that found every name recorded calls
\* none; each schema change is made at most once; and no statement of
\* any run raises, also not in a run that follows one cut short between
\* a migration's schema change and its record.
C38_MigrationsRunOnceInOrder ==
    /\ \A k \in 1..Len(migrations) : migrations[k] = MIGRATIONS[k]
    /\ boot.pc = "record" => MIGRATIONS[boot.i] \notin Recorded
    /\ boot.complete => boot.invoked = {}
    /\ \A i \in 1..Len(MIGRATIONS) : changes[i] <= 1
    /\ ~crashed

\* A start-up was cut short after the second migration had added its
\* column and before its name was recorded; the next start-up called the
\* function again and completed.
C38_Witness ==
    /\ runs[2] = 2
    /\ changes[2] = 1
    /\ boot.pc = "done"
    /\ migrations = MIGRATIONS
    /\ ~crashed

\* The pair has a personal channel row, and it holds no timestamp.
NeverPosted(guild_id, user_id) ==
    /\ PairRows(user_private_channels, guild_id, user_id) # {}
    /\ \A r \in PairRows(user_private_channels, guild_id, user_id) :
         r.last_journal_message = NoStamp

\* on_member_join reaches its last part for a member: when the welcome
\* was sent or not due, a role was found or made and the platform took
\* the add_roles call, the member holds the role, and the row stored for
\* them has no timestamp.
GrantStep ==
    \A h \in channelCalls :
       (h.pc = "grant" /\ h \notin channelCalls') =>
          /\ (/\ lastCommand'.sent = "ok"
              /\ lastCommand'.role # NoRole
              /\ lastCommand'.result = "ok") => lastCommand'.granted
          /\ lastCommand'.granted =>
               /\ <<h.guild_id, h.user_id>> \in memberRoles'
               /\ NeverPosted(h.guild_id, h.user_id)

\* A sweep reads the active users: a member whose row has no timestamp
\* is not among them.
SweepReadStep ==
    (sweep.pc = "read" /\ sweep'.pc = "members") =>
       \A u \in Users :
          NeverPosted(sweep.guild_id, u) => u \notin sweep'.active_user_ids_set

\* A sweep deals with a member who holds the role and was not read as
\* active: remove_roles is called, and unless the platform refuses the
\* member no longer holds the role.
SweepMemberStep ==
    sweep.pc = "members" =>
       LET after == IF sweep' = NoSweep THEN lastSweep' ELSE sweep'
       IN  \A m \in sweep.todo \ after.todo :
              (/\ ~IsBot(m)
               /\ <<sweep.guild_id, m>> \in memberRoles
               /\ m \notin sweep.active_user_ids_set) =>
                 /\ [user_id |-> m, op |-> "remove", has_role |-> TRUE] \in after.made
                 /\ (after.ok => <<sweep.guild_id, m>> \notin memberRoles')

\* C37: a member provisioned by on_member_join is granted the activity
\* role while the row stored for them has no last-activity timestamp;
\* a sweep of the guild does not read such a member as active and
\* revokes the role when it comes to them.
C37_JoinGrantIsRevokedBySweep ==
    [][GrantStep /\ SweepReadStep /\ SweepMemberStep]_vars

\* A member got a channel and the role on joining and has not posted; a
\* sweep of the guild has returned after taking the role from them.
C37_Witness ==
    /\ lastSweep.pc = "returned"
    /\ \E r \in user_private_channels :
         /\ r.guild_id = lastSweep.guild_id
         /\ r.channel_id \notin TextChannels
         /\ r.last_journal_message = NoStamp
         /\ [user_id |-> r.user_id, op |-> "remove", has_role |-> TRUE]
               \in lastSweep.made
         /\ <<r.guild_id, r.user_id>> \notin memberRoles

====
